---------------------------- MODULE Spec2Model ----------------------------
(***************************************************************************)
(* A model of the traffic simulation services of the repository:           *)
(*   - the Traffic Light Controller  (RabbitMQ/src/traffic_light.rs)       *)
(*   - the Simulation Engine         (RabbitMQ/src/simulation.rs and the   *)
(*                                    single-lane Berry/src/simulation.rs) *)
(*   - the Flow Analyzer             (RabbitMQ/src/flow_analyzer.rs)       *)
(* The services talk through fanout exchanges; each exchange is modelled   *)
(* by the queue of its one subscriber.  Timestamps are left out of every   *)
(* message: no code path reads them.                                       *)
(***************************************************************************)
EXTENDS Integers, Sequences, FiniteSets, TLC

VARIABLES
    lanes,              \* the lane table returned by load_lanes (frozen)
    traffic_lights,     \* TrafficLightMap: lane id -> "Red" | "Green"
    jpc,                \* junction -> position of its cycle task
    jk,                 \* junction -> index into lane_list of a publish loop
    group_index,        \* junction -> index of the group being served
    status,             \* junction -> the status string read for the next publish
    sleep_for,          \* junction -> seconds of the sleep the task is suspended in
    lock,               \* holder of the TrafficLightMap mutex across an await
    rec_pc,             \* position of the recommendation loop
    rec,                \* the recommendation the loop is processing
    groups,             \* junction -> its direction groups, computed at task start
    age,                \* history: junction -> group -> seconds since its green write
    recommendations,    \* queue bound to the "recommendations" exchange
    light_status,       \* queue bound to the "light_status" exchange
    light_status_map,   \* LightStatusMap of the Simulation Engine
    logs,               \* the log events published by the latest step
    engine,             \* which Simulation Engine runs: "RabbitMQ" | "Berry"
    cpc,                \* car -> position of its simulate_car task
    input_lane,         \* car -> id of the entry lane it drew
    exit_lane,          \* car -> id of the exit lane it drew
    lane_route,         \* car -> ids of the lanes of its planned route
    ri,                 \* car -> index of the route lane it is handling
    count,              \* car -> the count it read under the lock (Berry)
    occupancy,          \* SimEvent: lane id -> number of cars (u32)
    sim_complete,       \* main has published "Simulation complete"
    traffic_updates,    \* queue bound to the "simulation.updates" exchange
    fa_pc,              \* position of the Flow Analyzer loop
    update,             \* the delivery the Flow Analyzer is processing
    events,             \* history: car -> its enter/leave events, in order
    unpublished,        \* history: car -> its events not yet published
    emitted,            \* history: Recommendations the analyzer has published
    peak,               \* history: lane id -> the largest occupancy reached
    plan_out,           \* the latest call of find_lane_path, with its result
    plan_first,         \* history: the first call made for the boundary lanes
    group_out,          \* the latest call of group_lanes_by_direction, with its result
    log_queue,          \* the System Monitor's queue bound to the "logs" exchange
    mon_pc,             \* position of the System Monitor loop
    consumed,           \* history: the payloads the monitor has taken, in order
    printed             \* the lines the monitor has written, in order

tlVars  == <<traffic_lights, jpc, jk, group_index, status, sleep_for, lock,
             rec_pc, rec, groups, age>>
busVars == <<recommendations, light_status>>
monVars == <<log_queue, mon_pc, consumed, printed>>
carVars == <<engine, cpc, input_lane, exit_lane, lane_route, ri, count,
             occupancy, sim_complete, events, unpublished, peak,
             plan_out, plan_first, group_out, monVars>>
faVars  == <<traffic_updates, fa_pc, update, emitted>>
vars    == <<lanes, tlVars, busVars, light_status_map, logs, carVars, faVars>>

(***************************************************************************)
(* Bounds of the model.                                                    *)
(***************************************************************************)
MaxInFlight == 1        \* messages a queue holds before its publisher waits
NumCars == 2            \* vehicle tasks of the Simulation Engine taken alone
MaxVehicleCount == 5    \* largest vehicle_count a foreign publisher sends
MaxGroupLanes == 3      \* lanes entering the junction of a drawn table at most
MaxPlanLanes == 3       \* internal lanes of a drawn lane table at most
MaxDraws == 2           \* draws of an exit lane a vehicle makes at most
CountCap == 2           \* the history counters stop counting here
MaxLines == 3
LiveCars == 1
MaxApproachLanes == 2
MaxAckQueue == 2
AgeCap == 60            \* the recorded seconds stop counting here

(***************************************************************************)
(* Program constants.                                                      *)
(***************************************************************************)
GreenDuration     == 5
ClearanceDuration == 10
AngleThreshold    == 20
NewGreenTime      == 40
CongestionThreshold == 4

\* What a u32 holds after "-= 1" at 0 (a panic or a wrap, by the build).
Underflow == -1

NoRec == [lane_id |-> 0, new_green_time |-> 0]

(***************************************************************************)
(* Lane tables.  A lane is a record of the fields of struct Lane.          *)
(***************************************************************************)
Lane(id, s, e, len, cat) ==
    [id |-> id, start_intersection |-> s, end_intersection |-> e,
     length |-> len, category |-> cat]

\* Two junctions: junction 1 is entered by an input lane (from the north) and
\* by an internal lane from junction 2; junction 2 by one internal lane.
TableTL ==
    << Lane(1000, 2, 0, 100, "OutputBoundary"),
       Lane(1010, 0, 1, 200, "InputBoundary"),
       Lane(1020, 1, 2, 400, "Internal"),
       Lane(1021, 2, 1, 400, "Internal") >>

\* One entry, one internal lane, one exit: every vehicle takes the same lanes.
\* Junction 6 entered from three sides: three direction groups.
TableCycle ==
    << Lane(2060, 2, 6, 300, "Internal"),
       Lane(5060, 5, 6, 300, "Internal"),
       Lane(7060, 7, 6, 300, "Internal") >>

TableLoop ==
    << Lane(1000, 2, 0, 100, "OutputBoundary"),
       Lane(1010, 0, 1, 200, "InputBoundary"),
       Lane(1020, 1, 2, 400, "Internal") >>

\* Three junctions in a row: 1 -> 2 -> 3 by two lanes of 400 and 1 -> 3 by a
\* detour of 900; exits at junction 3 and at junction 4, which no internal
\* lane reaches.
TableSim ==
    << Lane(1002, 3, 0, 100, "OutputBoundary"),
       Lane(1003, 4, 0, 100, "OutputBoundary"),
       Lane(1010, 0, 1, 200, "InputBoundary"),
       Lane(1020, 1, 2, 400, "Internal"),
       Lane(1022, 2, 3, 400, "Internal"),
       Lane(1023, 1, 3, 900, "Internal") >>

Range(s) == { s[i] : i \in DOMAIN s }

LaneIds == { l.id : l \in Range(lanes) }

ControlledLanes == { l.id : l \in { x \in Range(lanes) : x.end_intersection # 0 } }

Junctions == { l.end_intersection : l \in { x \in Range(lanes) : x.end_intersection # 0 } }

\* junction_map[junction]: the lanes entering the junction, in table order.
lane_list(j) == SelectSeq(lanes, LAMBDA l : l.end_intersection = j)

LaneById(id) == CHOOSE l \in Range(lanes) : l.id = id

(***************************************************************************)
(* Approach angles and grouping.                                           *)
(***************************************************************************)
intersection_to_coords(inter) == << (inter - 1) \div 4, (inter - 1) % 4 >>

\* Angles are f64 degrees in the code; here they are whole thousandths of a
\* degree.
Deg(d) == 1000 * d

\* atan(a / b) for a, b >= 0 on the 4x4 grid, a and b not both 0.
AtanFirst(a, b) ==
    CASE a = 0         -> Deg(0)
      [] b = 0         -> Deg(90)
      [] a = b         -> Deg(45)
      [] 3 * a = b     -> 18435
      [] 2 * a = b     -> 26565
      [] 3 * a = 2 * b -> 33690
      [] 2 * a = 3 * b -> 56310
      [] a = 2 * b     -> 63435
      [] a = 3 * b     -> 71565

\* atan2(y, x).to_degrees(), in (-180, 180].
Atan2Deg(y, x) ==
    CASE x = 0 /\ y = 0 -> Deg(0)
      [] x > 0 /\ y >= 0 -> AtanFirst(y, x)
      [] x <= 0 /\ y > 0 -> Deg(180) - AtanFirst(y, -x)
      [] x < 0 /\ y = 0  -> Deg(180)
      [] x < 0 /\ y < 0  -> AtanFirst(-y, -x) - Deg(180)
      [] x >= 0 /\ y < 0 -> -AtanFirst(-y, x)

compute_lane_angle(lane) ==
    IF lane.start_intersection # 0
    THEN LET s  == intersection_to_coords(lane.start_intersection)
             e  == intersection_to_coords(lane.end_intersection)
             dx == e[1] - s[1]
             dy == e[2] - s[2]
             a  == Atan2Deg(dy, dx)
         IN  IF a < 0 THEN a + Deg(360) ELSE a
    ELSE LET ex == intersection_to_coords(lane.end_intersection)[1]
         IN  IF ex = 0 THEN Deg(90) ELSE IF ex = 3 THEN Deg(270) ELSE Deg(90)

Abs(x) == IF x < 0 THEN -x ELSE x

\* A mutation of the test: the lane's angle is compared with the angle of the
\* first lane of the group.
WithinThreshold_First(angle, g) ==
    LET first == CHOOSE l \in Range(lanes) : l.id = g.ids[1]
    IN  Abs(angle - compute_lane_angle(first)) <= Deg(AngleThreshold)

\* A group is [sum |-> sum of member angles, ids |-> member lane ids]; its
\* running average is sum / Len(ids), compared without dividing.
WithinThreshold(angle, g) ==
    Abs(angle * Len(g.ids) - g.sum) <= Deg(AngleThreshold) * Len(g.ids)

RECURSIVE FirstGroup(_, _, _)
FirstGroup(gs, angle, i) ==
    IF i > Len(gs) THEN 0
    ELSE IF WithinThreshold(angle, gs[i]) THEN i
    ELSE FirstGroup(gs, angle, i + 1)

AddLane(gs, lane) ==
    LET angle == compute_lane_angle(lane)
        i     == FirstGroup(gs, angle, 1)
    IN  IF i = 0
        THEN Append(gs, [sum |-> angle, ids |-> << lane.id >>])
        ELSE [gs EXCEPT ![i] = [sum |-> @.sum + angle,
                                    ids |-> Append(@.ids, lane.id)]]

RECURSIVE GroupFold(_, _, _)
GroupFold(gs, ls, i) ==
    IF i > Len(ls) THEN gs
    ELSE GroupFold(AddLane(gs, ls[i]), ls, i + 1)

\* a.0 < b.0 for the running averages of gs a and b
AvgLess(a, b) == a.sum * Len(b.ids) < b.sum * Len(a.ids)

RECURSIVE InsertSorted(_, _)
InsertSorted(sorted, g) ==
    IF sorted = << >> THEN << g >>
    ELSE IF AvgLess(g, sorted[Len(sorted)])
         THEN Append(InsertSorted(SubSeq(sorted, 1, Len(sorted) - 1), g),
                     sorted[Len(sorted)])
         ELSE Append(sorted, g)

RECURSIVE SortGroups(_, _, _)
SortGroups(sorted, gs, i) ==
    IF i > Len(gs) THEN sorted
    ELSE SortGroups(InsertSorted(sorted, gs[i]), gs, i + 1)

group_lanes_by_direction(ls) ==
    LET sorted == SortGroups(<< >>, GroupFold(<< >>, ls, 1), 1)
    IN  [i \in DOMAIN sorted |-> sorted[i].ids]

\* the groups the cycle task of junction j computed when it started
Groups(j) == groups[j]

\* groups[group_index] of junction j, as a set of lane ids
CurrentGroup(j) == Range(Groups(j)[group_index[j] + 1])

(***************************************************************************)
(* The message bus: publish appends to the subscriber's queue.             *)
(***************************************************************************)
HasRoom(q) == Len(q) < MaxInFlight

LightStatusMsg(id, st) == [lane_id |-> id, status |-> st]
Recommendation(id, t)  == [lane_id |-> id, new_green_time |-> t]
LogEvent(src, what)    == [source |-> src, message |-> what]

(***************************************************************************)
(* Traffic Light Controller: initial state.                                *)
(***************************************************************************)
\* A mutation of the initial map: an entry for every lane of the table.
initialize_traffic_lights_All == [id \in LaneIds |-> "Red"]

\* Every lane with end_intersection != 0 starts Red.
initialize_traffic_lights == [id \in ControlledLanes |-> "Red"]

InitTL ==
    /\ traffic_lights = initialize_traffic_lights
    /\ jpc = [j \in Junctions |-> "write_green"]
    /\ jk = [j \in Junctions |-> 0]
    /\ groups = [j \in Junctions |-> group_lanes_by_direction(lane_list(j))]
    /\ group_index = [j \in Junctions |-> 0]
    /\ status = [j \in Junctions |-> "Red"]
    /\ sleep_for = [j \in Junctions |-> 0]
    /\ lock = "none"
    /\ rec_pc = "idle"
    /\ rec = NoRec
    /\ recommendations = << >>
    /\ light_status = << >>
    /\ logs = << >>

(***************************************************************************)
(* Traffic Light Controller: the cycle task of junction j.                 *)
(***************************************************************************)
\* The colours the green phase writes for the lanes of junction j.
GreenPhaseColor(j, id) == IF id \in CurrentGroup(j) THEN "Green" ELSE "Red"

\* The recorded ages of junction j once its current group is written Green;
\* a junction whose service is not recorded has no entry.
Served(j) ==
    IF j \in DOMAIN age
    THEN [age EXCEPT ![j] = [@ EXCEPT ![group_index[j] + 1] = 0]]
    ELSE age

\* The recorded ages of junction j after a sleep of d seconds.
Aged(j, d) ==
    IF j \in DOMAIN age
    THEN [age EXCEPT ![j] =
            [g \in DOMAIN @ |-> IF @[g] + d < AgeCap THEN @[g] + d ELSE AgeCap]]
    ELSE age

\* A mutation of the green write: only the lanes of the current group are
\* written; the other lanes of the junction keep their colour.
WriteGreen_GroupOnly(j) ==
    /\ jpc[j] = "write_green"
    /\ lock = "none"
    /\ traffic_lights' =
         [id \in DOMAIN traffic_lights |->
            IF id \in CurrentGroup(j) THEN "Green" ELSE traffic_lights[id]]
    /\ jpc' = [jpc EXCEPT ![j] = "read_status"]
    /\ jk' = [jk EXCEPT ![j] = 1]
    /\ logs' = << >>
    /\ age' = Served(j)
    /\ UNCHANGED <<lanes, groups, group_index, status, sleep_for, lock, rec_pc, rec,
                   busVars, light_status_map, carVars,
                   faVars>>

\* The green write: under the lock, every lane of the junction is written,
\* Green for the current group and Red for the others.
WriteGreen(j) ==
    /\ jpc[j] = "write_green"
    /\ lock = "none"
    /\ traffic_lights' =
         [id \in DOMAIN traffic_lights |->
            IF id \in { l.id : l \in Range(lane_list(j)) }
            THEN GreenPhaseColor(j, id) ELSE traffic_lights[id]]
    /\ jpc' = [jpc EXCEPT ![j] = "read_status"]
    /\ jk' = [jk EXCEPT ![j] = 1]
    /\ logs' = << >>
    /\ age' = Served(j)
    /\ UNCHANGED <<lanes, groups, group_index, status, sleep_for, lock, rec_pc, rec,
                   busVars, light_status_map, carVars,
                   faVars>>

\* A mutation of the status read: every lane is read as Red.
ReadStatus_Red(j) ==
    /\ jpc[j] = "read_status"
    /\ lock = "none"
    /\ status' = [status EXCEPT ![j] = "Red"]
    /\ jpc' = [jpc EXCEPT ![j] = "publish_status"]
    /\ logs' = << >>
    /\ UNCHANGED <<lanes, groups, traffic_lights, jk, group_index, sleep_for, lock,
                   rec_pc, rec, busVars, light_status_map, carVars,
                   faVars, age>>

\* The colour the map holds for the lane is read under the lock.
ReadStatus(j) ==
    /\ jpc[j] = "read_status"
    /\ lock = "none"
    /\ status' = [status EXCEPT ![j] =
                    IF traffic_lights[lane_list(j)[jk[j]].id] = "Green"
                    THEN "Green" ELSE "Red"]
    /\ jpc' = [jpc EXCEPT ![j] = "publish_status"]
    /\ logs' = << >>
    /\ UNCHANGED <<lanes, groups, traffic_lights, jk, group_index, sleep_for, lock,
                   rec_pc, rec, busVars, light_status_map, carVars,
                   faVars, age>>

PublishStatus(j) ==
    /\ jpc[j] = "publish_status"
    /\ HasRoom(light_status)
    /\ light_status' = Append(light_status,
                              LightStatusMsg(lane_list(j)[jk[j]].id, status[j]))
    /\ IF jk[j] < Len(lane_list(j))
       THEN /\ jk' = [jk EXCEPT ![j] = @ + 1]
            /\ jpc' = [jpc EXCEPT ![j] = "read_status"]
       ELSE /\ jk' = [jk EXCEPT ![j] = 0]
            /\ jpc' = [jpc EXCEPT ![j] = "publish_log"]
    /\ status' = [status EXCEPT ![j] = "Red"]
    /\ logs' = << >>
    /\ UNCHANGED <<lanes, groups, traffic_lights, group_index, sleep_for, lock,
                   rec_pc, rec, recommendations, light_status_map, carVars,
                   faVars, age>>

\* Publishes the phase log, then suspends in sleep(5).
PublishPhaseLog(j) ==
    /\ jpc[j] = "publish_log"
    /\ logs' = << LogEvent(<<"Junction", j>>, <<"Phase", group_index[j]>>) >>
    /\ jpc' = [jpc EXCEPT ![j] = "green_hold"]
    /\ sleep_for' = [sleep_for EXCEPT ![j] = GreenDuration]
    /\ UNCHANGED <<lanes, groups, traffic_lights, jk, group_index, status, lock,
                   rec_pc, rec, busVars, light_status_map, carVars,
                   faVars, age>>

\* A mutation of the clearance write: every lane of the map is written Red.
WriteAllRed_Everywhere(j) ==
    /\ jpc[j] = "green_hold"
    /\ lock = "none"
    /\ traffic_lights' = [id \in DOMAIN traffic_lights |-> "Red"]
    /\ jpc' = [jpc EXCEPT ![j] = "publish_red"]
    /\ jk' = [jk EXCEPT ![j] = 1]
    /\ sleep_for' = [sleep_for EXCEPT ![j] = 0]
    /\ logs' = << >>
    /\ age' = Aged(j, GreenDuration)
    /\ UNCHANGED <<lanes, groups, group_index, status, lock, rec_pc, rec, busVars,
                   light_status_map, carVars,
                   faVars>>

\* sleep(5) is over: the all-red clearance write.
WriteAllRed(j) ==
    /\ jpc[j] = "green_hold"
    /\ lock = "none"
    /\ traffic_lights' =
         [id \in DOMAIN traffic_lights |->
            IF id \in { l.id : l \in Range(lane_list(j)) }
            THEN "Red" ELSE traffic_lights[id]]
    /\ jpc' = [jpc EXCEPT ![j] = "publish_red"]
    /\ jk' = [jk EXCEPT ![j] = 1]
    /\ sleep_for' = [sleep_for EXCEPT ![j] = 0]
    /\ logs' = << >>
    /\ age' = Aged(j, GreenDuration)
    /\ UNCHANGED <<lanes, groups, group_index, status, lock, rec_pc, rec, busVars,
                   light_status_map, carVars,
                   faVars>>

\* Publishes "Red" for the next lane; after the last one suspends in sleep(10).
PublishRed(j) ==
    /\ jpc[j] = "publish_red"
    /\ HasRoom(light_status)
    /\ light_status' = Append(light_status,
                              LightStatusMsg(lane_list(j)[jk[j]].id, "Red"))
    /\ IF jk[j] < Len(lane_list(j))
       THEN /\ jk' = [jk EXCEPT ![j] = @ + 1]
            /\ UNCHANGED <<jpc, sleep_for>>
       ELSE /\ jk' = [jk EXCEPT ![j] = 0]
            /\ jpc' = [jpc EXCEPT ![j] = "clearance_hold"]
            /\ sleep_for' = [sleep_for EXCEPT ![j] = ClearanceDuration]
    /\ logs' = << >>
    /\ UNCHANGED <<lanes, groups, traffic_lights, group_index, status, lock, rec_pc,
                   rec, recommendations, light_status_map, carVars,
                   faVars, age>>

\* A mutation of the advance: the index moves on by two groups.
NextGroup_Skip(j) ==
    /\ jpc[j] = "clearance_hold"
    /\ group_index' = [group_index EXCEPT ![j] = (@ + 2) % Len(Groups(j))]
    /\ jpc' = [jpc EXCEPT ![j] = "write_green"]
    /\ sleep_for' = [sleep_for EXCEPT ![j] = 0]
    /\ logs' = << >>
    /\ age' = Aged(j, ClearanceDuration)
    /\ UNCHANGED <<lanes, groups, traffic_lights, jk, status, lock, rec_pc, rec,
                   busVars, light_status_map, carVars,
                   faVars>>

NextGroup_Stay(j) ==
    /\ jpc[j] = "clearance_hold"
    /\ group_index' = group_index
    /\ jpc' = [jpc EXCEPT ![j] = "write_green"]
    /\ sleep_for' = [sleep_for EXCEPT ![j] = 0]
    /\ logs' = << >>
    /\ age' = Aged(j, ClearanceDuration)
    /\ UNCHANGED <<lanes, groups, traffic_lights, jk, status, lock, rec_pc, rec,
                   busVars, light_status_map, carVars,
                   faVars>>

\* A mutation of the advance: the index moves on without wrapping.
NextGroup_NoWrap(j) ==
    /\ jpc[j] = "clearance_hold"
    /\ group_index' = [group_index EXCEPT ![j] = @ + 1]
    /\ jpc' = [jpc EXCEPT ![j] = "write_green"]
    /\ sleep_for' = [sleep_for EXCEPT ![j] = 0]
    /\ logs' = << >>
    /\ age' = Aged(j, ClearanceDuration)
    /\ UNCHANGED <<lanes, groups, traffic_lights, jk, status, lock, rec_pc, rec,
                   busVars, light_status_map, carVars,
                   faVars>>

\* sleep(10) is over: move to the next group.
NextGroup(j) ==
    /\ jpc[j] = "clearance_hold"
    /\ group_index' = [group_index EXCEPT ![j] = (@ + 1) % Len(Groups(j))]
    /\ jpc' = [jpc EXCEPT ![j] = "write_green"]
    /\ sleep_for' = [sleep_for EXCEPT ![j] = 0]
    /\ logs' = << >>
    /\ age' = Aged(j, ClearanceDuration)
    /\ UNCHANGED <<lanes, groups, traffic_lights, jk, status, lock, rec_pc, rec,
                   busVars, light_status_map, carVars,
                   faVars>>

(***************************************************************************)
(* Traffic Light Controller: the recommendation loop.                      *)
(***************************************************************************)
JunctionOf(id) == LaneById(id).end_intersection

\* The index (from 0) of the group of junction j that holds lane id.
GroupOf(j, id) == CHOOSE i \in 0..(Len(Groups(j)) - 1) : id \in Range(Groups(j)[i + 1])

\* Mutant: the recommendation is only noted; the colour is left to the cycle.
ReceiveRecommendation_Deferred ==
    /\ rec_pc = "idle"
    /\ recommendations # << >>
    /\ lock = "none"
    /\ rec' = Head(recommendations)
    /\ recommendations' = Tail(recommendations)
    /\ IF Head(recommendations).lane_id \in DOMAIN traffic_lights
       THEN /\ lock' = "rec"
            /\ rec_pc' = "publish_log"
       ELSE /\ UNCHANGED lock
            /\ rec_pc' = "ack"
    /\ logs' = << >>
    /\ UNCHANGED <<lanes, groups, traffic_lights, jpc, jk, group_index, status,
                   sleep_for, light_status, light_status_map, carVars,
                   faVars, age>>

\* Mutant: the recommendation also makes the lane's group the one served.
ReceiveRecommendation_Reschedule ==
    /\ rec_pc = "idle"
    /\ recommendations # << >>
    /\ lock = "none"
    /\ rec' = Head(recommendations)
    /\ recommendations' = Tail(recommendations)
    /\ IF Head(recommendations).lane_id \in DOMAIN traffic_lights
       THEN /\ traffic_lights' =
                 [traffic_lights EXCEPT ![Head(recommendations).lane_id] = "Green"]
            /\ group_index' =
                 [group_index EXCEPT ![JunctionOf(Head(recommendations).lane_id)] =
                    GroupOf(JunctionOf(Head(recommendations).lane_id),
                            Head(recommendations).lane_id)]
            /\ lock' = "rec"
            /\ rec_pc' = "publish_log"
       ELSE /\ UNCHANGED <<traffic_lights, lock, group_index>>
            /\ rec_pc' = "ack"
    /\ logs' = << >>
    /\ UNCHANGED <<lanes, groups, jpc, jk, status, sleep_for,
                   light_status, light_status_map, carVars,
                   faVars, age>>

\* consumer.next() yields a delivery; the loop takes the map's lock and, when
\* the lane has an entry, sets it to Green.  The lock stays held across the
\* publish of the log.
ReceiveRecommendation ==
    /\ rec_pc = "idle"
    /\ recommendations # << >>
    /\ lock = "none"
    /\ rec' = Head(recommendations)
    /\ recommendations' = Tail(recommendations)
    /\ IF Head(recommendations).lane_id \in DOMAIN traffic_lights
       THEN /\ traffic_lights' =
                 [traffic_lights EXCEPT ![Head(recommendations).lane_id] = "Green"]
            /\ lock' = "rec"
            /\ rec_pc' = "publish_log"
       ELSE /\ UNCHANGED <<traffic_lights, lock>>
            /\ rec_pc' = "ack"
    /\ logs' = << >>
    /\ UNCHANGED <<lanes, groups, jpc, jk, group_index, status, sleep_for,
                   light_status, light_status_map, carVars,
                   faVars, age>>

\* A mutation of the publish: the loop goes on with the map's lock held.
PublishRecommendationLog_KeepLock ==
    /\ rec_pc = "publish_log"
    /\ logs' = << LogEvent(<<"TrafficLight", rec.lane_id>>,
                           "Set to Green per recommendation") >>
    /\ lock' = lock
    /\ rec_pc' = "ack"
    /\ UNCHANGED <<lanes, groups, traffic_lights, jpc, jk, group_index, status,
                   sleep_for, rec, busVars, light_status_map, carVars,
                   faVars, age>>

\* publish_message returns; the block ends and the lock is dropped.
PublishRecommendationLog ==
    /\ rec_pc = "publish_log"
    /\ logs' = << LogEvent(<<"TrafficLight", rec.lane_id>>,
                           "Set to Green per recommendation") >>
    /\ lock' = "none"
    /\ rec_pc' = "ack"
    /\ UNCHANGED <<lanes, groups, traffic_lights, jpc, jk, group_index, status,
                   sleep_for, rec, busVars, light_status_map, carVars,
                   faVars, age>>

AckRecommendation ==
    /\ rec_pc = "ack"
    /\ rec_pc' = "idle"
    /\ rec' = NoRec
    /\ logs' = << >>
    /\ UNCHANGED <<lanes, groups, traffic_lights, jpc, jk, group_index, status,
                   sleep_for, lock, busVars, light_status_map, carVars,
                   faVars, age>>

(***************************************************************************)
(* Simulation Engine: the light status listener.                           *)
(***************************************************************************)
\* A delivery is taken; a payload that reads as a LightStatus is inserted
\* under the lock; the delivery is acknowledged.
listen_for_light_statuses ==
    /\ light_status # << >>
    /\ light_status_map' =
         LET m == Head(light_status)
         IN  IF "lane_id" \in DOMAIN m
             THEN [id \in DOMAIN light_status_map \cup {m.lane_id} |->
                     IF id = m.lane_id THEN m.status ELSE light_status_map[id]]
             ELSE light_status_map
    /\ light_status' = Tail(light_status)
    /\ logs' = << >>
    /\ UNCHANGED <<lanes, tlVars, recommendations, carVars, faVars>>

\* A mutation of the poll: a lane without a status reads as Green.
ObservedStatus_DefaultGreen(id) ==
    IF id \in DOMAIN light_status_map THEN light_status_map[id] ELSE "Green"

\* statuses.get(&lane.id).cloned().unwrap_or("Red")
ObservedStatus(id) ==
    IF id \in DOMAIN light_status_map THEN light_status_map[id] ELSE "Red"

(***************************************************************************)
(* Simulation Engine: route planning.                                      *)
(***************************************************************************)
Put(f, k, v) == [x \in DOMAIN f \cup {k} |-> IF x = k THEN v ELSE f[x]]

\* A mutation of lane_map: a planner that has been called before lists the
\* lanes leaving a position in reverse.
NeighborLanes_Stateful(ls, position) ==
    LET nl == SelectSeq(ls, LAMBDA l : l.start_intersection = position)
    IN  IF plan_out = << >> THEN nl
        ELSE [i \in 1..Len(nl) |-> nl[Len(nl) + 1 - i]]

\* lane_map[position]: the internal lanes leaving position, in table order.
NeighborLanes(ls, position) ==
    SelectSeq(ls, LAMBDA l : l.start_intersection = position)

\* A mutation of the heap order: the entry of the largest cost is taken.
Pop_Max(heap) ==
    CHOOSE e \in heap :
        \A o \in heap : e[1] > o[1] \/ (e[1] = o[1] /\ e[2] <= o[2])

\* BinaryHeap::pop on State ordered by cost alone; among entries of equal
\* cost the one at the smallest intersection is taken.
Pop(heap) ==
    CHOOSE e \in heap :
        \A o \in heap : e[1] < o[1] \/ (e[1] = o[1] /\ e[2] <= o[2])

\* The loop over the lanes leaving the popped position.  An intersection
\* absent from st.dist is at distance infinity.
RECURSIVE Relax(_, _, _, _, _)
Relax(st, nl, i, cost, position) ==
    IF i > Len(nl) THEN st
    ELSE LET lane      == nl[i]
             next      == lane.end_intersection
             next_cost == cost + lane.length
         IN  IF next \notin DOMAIN st.dist \/ next_cost < st.dist[next]
             THEN Relax([dist |-> Put(st.dist, next, next_cost),
                         prev |-> Put(st.prev, next,
                                      [from |-> position, lane |-> lane.id]),
                         heap |-> st.heap \cup {<<next_cost, next>>}],
                        nl, i + 1, cost, position)
             ELSE Relax(st, nl, i + 1, cost, position)

RECURSIVE Search(_, _, _)
Search(st, end, ls) ==
    IF st.heap = {} THEN st
    ELSE LET top  == Pop(st.heap)
             rest == [st EXCEPT !.heap = @ \ {top}]
         IN  IF top[2] = end THEN rest
             ELSE IF top[1] > rest.dist[top[2]] THEN Search(rest, end, ls)
             ELSE Search(Relax(rest, NeighborLanes(ls, top[2]), 1,
                               top[1], top[2]),
                         end, ls)

\* The walk back along prev, from end to start (the path before reversal).
RECURSIVE Collect(_, _, _, _)
Collect(prev, current, start, acc) ==
    IF current = start THEN acc
    ELSE IF current \in DOMAIN prev
         THEN Collect(prev, prev[current].from, start,
                      Append(acc, prev[current].lane))
         ELSE acc

Reverse(s) == [i \in 1..Len(s) |-> s[Len(s) + 1 - i]]

\* A mutation of the planner: the test for an unreached end is left out.
find_lane_path_NoCheck(start, end, ls) ==
    LET st == Search([dist |-> Put(<< >>, start, 0), prev |-> << >>,
                      heap |-> {<<0, start>>}], end, ls)
    IN  [some |-> TRUE, path |-> Reverse(Collect(st.prev, end, start, << >>))]

\* Some(path) or None, as a record; the path is the sequence of lane ids.
find_lane_path(start, end, ls) ==
    LET st == Search([dist |-> Put(<< >>, start, 0), prev |-> << >>,
                      heap |-> {<<0, start>>}], end, ls)
    IN  IF end \notin DOMAIN st.dist
        THEN [some |-> FALSE, path |-> << >>]
        ELSE [some |-> TRUE, path |-> Reverse(Collect(st.prev, end, start, << >>))]

\* A mutation of the internal_lanes filter: every lane is kept.
InternalLanes_All == lanes

InternalLanes == SelectSeq(lanes, LAMBDA l : l.category = "Internal")
EntryLaneIds  == { l.id : l \in { x \in Range(lanes) : x.category = "InputBoundary" } }
\* A mutation of the exit_lanes filter: it keeps the Internal lanes.
ExitLaneIds_Internal ==
    { l.id : l \in { x \in Range(lanes) : x.category = "Internal" } }

ExitLaneIds   == { l.id : l \in { x \in Range(lanes) : x.category = "OutputBoundary" } }

\* The route simulate_car follows: None becomes the empty route.
Route(in, out) ==
    LET r == find_lane_path(LaneById(in).end_intersection,
                            LaneById(out).start_intersection, InternalLanes)
    IN  IF r.some THEN r.path ELSE << >>

(***************************************************************************)
(* Simulation Engine: shared occupancy map and vehicle tasks.              *)
(***************************************************************************)
Cars == DOMAIN cpc

TrafficUpdate(id, n) == [lane_id |-> id, vehicle_count |-> n]

\* stats.entry(id).or_insert(0)
Count(id) == IF id \in DOMAIN occupancy THEN occupancy[id] ELSE 0

\* u32 "-= 1": the value below 0 is not a count.
U32Dec(x) == IF x = 0 THEN Underflow ELSE x - 1

initialize_simdata == [id \in LaneIds |-> 0]

Event(kind, id) == [kind |-> kind, lane_id |-> id]

\* The value of exit_lane while the loop is still drawing: not a lane id.
NoLane == 0 - 1

\* The outcomes of the draws of an exit lane.
Draws == [1..MaxDraws -> ExitLaneIds]

\* while exit_lane.id == input_lane.id { draw again }: the exit lane the loop
\* ends with for the draws ds, NoLane when every draw was rejected.
RECURSIVE Resample(_, _)
Resample(input, ds) ==
    IF ds = << >> THEN NoLane
    ELSE IF Head(ds) # input THEN Head(ds)
    ELSE Resample(input, Tail(ds))

InitSim(n) ==
    /\ engine \in {"RabbitMQ", "Berry"}
    /\ cpc = [c \in 1..n |-> "spawn"]
    /\ input_lane \in [1..n -> EntryLaneIds]
    /\ \E ds \in [1..n -> Draws] :
          exit_lane = [c \in 1..n |-> Resample(input_lane[c], ds[c])]
    /\ lane_route = [c \in 1..n |->
                       IF engine = "RabbitMQ"
                       THEN Route(input_lane[c], exit_lane[c]) ELSE << >>]
    /\ ri = [c \in 1..n |-> 0]
    /\ count = [c \in 1..n |-> 0]
    /\ occupancy = IF engine = "RabbitMQ" THEN initialize_simdata ELSE << >>
    /\ sim_complete = FALSE
    /\ events = [c \in 1..n |-> << >>]
    /\ unpublished = [c \in 1..n |-> 0]
    /\ peak = [id \in LaneIds |-> 0]
    /\ plan_out = << >>
    /\ plan_first = << >>
    /\ group_out = << >>

\* The frame of a vehicle step that publishes nothing on the bus.
CarFrame == UNCHANGED <<lanes, tlVars, busVars, light_status_map, faVars,
                        engine, input_lane, exit_lane, lane_route,
                        sim_complete, plan_out, plan_first, group_out, monVars>>

\* RabbitMQ engine: the "Generated vehicle" log, then the entry lane sleep.
CarSpawn(c) ==
    /\ engine = "RabbitMQ"
    /\ cpc[c] = "spawn"
    /\ logs' = << LogEvent(<<"Car", c>>,
                           <<"Generated vehicle", input_lane[c], exit_lane[c],
                             lane_route[c]>>) >>
    /\ cpc' = [cpc EXCEPT ![c] = "entry"]
    /\ UNCHANGED <<ri, count, occupancy, events, unpublished, peak>>
    /\ CarFrame

\* A mutation of the start of the for loop: it starts at the last route lane.
CarEntryDone_LastLane(c) ==
    /\ engine = "RabbitMQ"
    /\ cpc[c] = "entry"
    /\ IF lane_route[c] # << >>
       THEN /\ ri' = [ri EXCEPT ![c] = Len(lane_route[c])]
            /\ cpc' = [cpc EXCEPT ![c] = "enter"]
       ELSE /\ ri' = ri
            /\ cpc' = [cpc EXCEPT ![c] = "exit"]
    /\ logs' = << >>
    /\ UNCHANGED <<count, occupancy, events, unpublished, peak>>
    /\ CarFrame

\* The entry lane is travelled; the for loop over lane_route starts.
CarEntryDone(c) ==
    /\ engine = "RabbitMQ"
    /\ cpc[c] = "entry"
    /\ IF lane_route[c] # << >>
       THEN /\ ri' = [ri EXCEPT ![c] = 1]
            /\ cpc' = [cpc EXCEPT ![c] = "enter"]
       ELSE /\ ri' = ri
            /\ cpc' = [cpc EXCEPT ![c] = "exit"]
    /\ logs' = << >>
    /\ UNCHANGED <<count, occupancy, events, unpublished, peak>>
    /\ CarFrame

\* A mutation of the entry into a lane: the counter is not incremented.
CarEnterLane_NoIncrement(c) ==
    /\ engine = "RabbitMQ"
    /\ cpc[c] = "enter"
    /\ events' = [events EXCEPT ![c] =
                    Append(@, Event("enter", lane_route[c][ri[c]]))]
    /\ cpc' = [cpc EXCEPT ![c] = "wait"]
    /\ logs' = << >>
    /\ UNCHANGED <<ri, count, occupancy, unpublished, peak>>
    /\ CarFrame

\* A mutation of the entry into a lane: the increment is applied twice.
CarEnterLane_Twice(c) ==
    /\ engine = "RabbitMQ"
    /\ cpc[c] = "enter"
    /\ LET id == lane_route[c][ri[c]]
       IN  /\ occupancy' = Put(occupancy, id, Count(id) + 2)
           /\ peak' = [peak EXCEPT ![id] = IF Count(id) + 2 > @
                                            THEN Count(id) + 2 ELSE @]
           /\ events' = [events EXCEPT ![c] =
                           Append(@, Event("enter", id))]
           /\ unpublished' = [unpublished EXCEPT ![c] = @ + 1]
    /\ cpc' = [cpc EXCEPT ![c] = "wait"]
    /\ logs' = << >>
    /\ UNCHANGED <<ri, count>>
    /\ CarFrame

\* Entering the lane: the increment under the sim_event lock.
CarEnterLane(c) ==
    /\ engine = "RabbitMQ"
    /\ cpc[c] = "enter"
    /\ LET id == lane_route[c][ri[c]]
       IN  /\ occupancy' = Put(occupancy, id, Count(id) + 1)
           /\ peak' = [peak EXCEPT ![id] = IF Count(id) + 1 > @
                                            THEN Count(id) + 1 ELSE @]
           /\ events' = [events EXCEPT ![c] =
                           Append(@, Event("enter", id))]
           /\ unpublished' = [unpublished EXCEPT ![c] = @ + 1]
    /\ cpc' = [cpc EXCEPT ![c] = "wait"]
    /\ logs' = << >>
    /\ UNCHANGED <<ri, count>>
    /\ CarFrame

\* The polling loop leaves when the status read for the lane is "Green"; a
\* poll that reads anything else changes nothing.
CarSeeGreen(c) ==
    /\ engine = "RabbitMQ"
    /\ cpc[c] = "wait"
    /\ ObservedStatus(lane_route[c][ri[c]]) = "Green"
    /\ cpc' = [cpc EXCEPT ![c] = "drive"]
    /\ logs' = << >>
    /\ UNCHANGED <<ri, count, occupancy, events, unpublished, peak>>
    /\ CarFrame

\* A mutation of the leaving of a lane: the counter is not decremented.
CarLeaveLane_NoDecrement(c) ==
    /\ engine = "RabbitMQ"
    /\ cpc[c] = "drive"
    /\ IF ri[c] < Len(lane_route[c])
       THEN /\ ri' = [ri EXCEPT ![c] = @ + 1]
            /\ cpc' = [cpc EXCEPT ![c] = "enter"]
       ELSE /\ ri' = ri
            /\ cpc' = [cpc EXCEPT ![c] = "exit"]
    /\ logs' = << >>
    /\ UNCHANGED <<count, occupancy, events, unpublished, peak>>
    /\ CarFrame

\* The lane is driven; leaving it: the decrement under the sim_event lock,
\* then the next lane of the route or the exit lane.
CarLeaveLane(c) ==
    /\ engine = "RabbitMQ"
    /\ cpc[c] = "drive"
    /\ LET id == lane_route[c][ri[c]]
       IN  /\ occupancy' = Put(occupancy, id, U32Dec(Count(id)))
           /\ events' = [events EXCEPT ![c] =
                           Append(@, Event("leave", id))]
           /\ unpublished' = [unpublished EXCEPT ![c] = @ + 1]
    /\ IF ri[c] < Len(lane_route[c])
       THEN /\ ri' = [ri EXCEPT ![c] = @ + 1]
            /\ cpc' = [cpc EXCEPT ![c] = "enter"]
       ELSE /\ ri' = ri
            /\ cpc' = [cpc EXCEPT ![c] = "exit"]
    /\ logs' = << >>
    /\ UNCHANGED <<count, peak>>
    /\ CarFrame

\* A mutation of the end of the journey: no completion log.
CarComplete_Silent(c) ==
    /\ engine = "RabbitMQ"
    /\ cpc[c] = "exit"
    /\ logs' = << >>
    /\ cpc' = [cpc EXCEPT ![c] = "done"]
    /\ UNCHANGED <<ri, count, occupancy, events, unpublished, peak>>
    /\ CarFrame

\* The exit lane is travelled and the "Completed journey" log published.
CarComplete(c) ==
    /\ engine = "RabbitMQ"
    /\ cpc[c] = "exit"
    /\ logs' = << LogEvent(<<"Car", c>>, <<"Completed journey">>) >>
    /\ cpc' = [cpc EXCEPT ![c] = "done"]
    /\ UNCHANGED <<ri, count, occupancy, events, unpublished, peak>>
    /\ CarFrame

\* Berry engine: the "Car generated" log, then the travel sleep.
BerrySpawn(c) ==
    /\ engine = "Berry"
    /\ cpc[c] = "spawn"
    /\ logs' = << LogEvent(<<"Car", c>>,
                           <<"Car generated", input_lane[c], exit_lane[c]>>) >>
    /\ cpc' = [cpc EXCEPT ![c] = "entry"]
    /\ UNCHANGED <<ri, count, occupancy, events, unpublished, peak>>
    /\ CarFrame

\* Berry engine: increment and read of the count under the lock.
BerryEnter(c) ==
    /\ engine = "Berry"
    /\ cpc[c] = "entry"
    /\ LET id == input_lane[c]
       IN  /\ occupancy' = Put(occupancy, id, Count(id) + 1)
           /\ peak' = [peak EXCEPT ![id] = IF Count(id) + 1 > @
                                            THEN Count(id) + 1 ELSE @]
           /\ count' = [count EXCEPT ![c] = Count(id) + 1]
           /\ events' = [events EXCEPT ![c] =
                           Append(@, Event("enter", id))]
           /\ unpublished' = [unpublished EXCEPT ![c] = @ + 1]
    /\ cpc' = [cpc EXCEPT ![c] = "publish_enter"]
    /\ logs' = << >>
    /\ UNCHANGED ri
    /\ CarFrame

\* Berry engine: the TrafficUpdate is published after the lock is dropped;
\* the block that holds count ends.
BerryPublish(c) ==
    /\ engine = "Berry"
    /\ cpc[c] \in {"publish_enter", "publish_leave"}
    /\ HasRoom(traffic_updates)
    /\ traffic_updates' = Append(traffic_updates,
                                 TrafficUpdate(input_lane[c], count[c]))
    /\ unpublished' = [unpublished EXCEPT ![c] = @ - 1]
    /\ count' = [count EXCEPT ![c] = 0]
    /\ cpc' = [cpc EXCEPT ![c] = IF cpc[c] = "publish_enter"
                                 THEN "transit" ELSE "complete"]
    /\ logs' = << >>
    /\ UNCHANGED <<lanes, tlVars, busVars, light_status_map, fa_pc, update,
                   emitted, engine, input_lane, exit_lane, lane_route, ri,
                   occupancy, sim_complete, events, peak,
                   plan_out, plan_first, group_out, monVars>>

\* Berry engine: after the transit sleep, decrement and read under the lock.
BerryLeave(c) ==
    /\ engine = "Berry"
    /\ cpc[c] = "transit"
    /\ LET id == input_lane[c]
       IN  /\ occupancy' = Put(occupancy, id, U32Dec(Count(id)))
           /\ count' = [count EXCEPT ![c] = U32Dec(Count(id))]
           /\ events' = [events EXCEPT ![c] =
                           Append(@, Event("leave", id))]
           /\ unpublished' = [unpublished EXCEPT ![c] = @ + 1]
    /\ cpc' = [cpc EXCEPT ![c] = "publish_leave"]
    /\ logs' = << >>
    /\ UNCHANGED <<ri, peak>>
    /\ CarFrame

BerryComplete(c) ==
    /\ engine = "Berry"
    /\ cpc[c] = "complete"
    /\ logs' = << LogEvent(<<"Car", c>>, <<"Completed journey">>) >>
    /\ cpc' = [cpc EXCEPT ![c] = "done"]
    /\ UNCHANGED <<ri, count, occupancy, events, unpublished, peak>>
    /\ CarFrame

\* A mutation of main: it publishes once the first vehicle task has ended.
SimulationComplete_Early ==
    /\ \E c \in Cars : cpc[c] = "done"
    /\ ~sim_complete
    /\ sim_complete' = TRUE
    /\ logs' = << LogEvent(<<"Simulation">>, <<"Simulation complete">>) >>
    /\ UNCHANGED <<lanes, tlVars, busVars, light_status_map, faVars, engine,
                   cpc, input_lane, exit_lane, lane_route, ri, count,
                   occupancy, events, unpublished, peak,
                   plan_out, plan_first, group_out, monVars>>

\* main: every handle is joined, then "Simulation complete" is published.
SimulationComplete ==
    /\ Cars # {}
    /\ \A c \in Cars : cpc[c] = "done"
    /\ ~sim_complete
    /\ sim_complete' = TRUE
    /\ logs' = << LogEvent(<<"Simulation">>, <<"Simulation complete">>) >>
    /\ UNCHANGED <<lanes, tlVars, busVars, light_status_map, faVars, engine,
                   cpc, input_lane, exit_lane, lane_route, ri, count,
                   occupancy, events, unpublished, peak,
                   plan_out, plan_first, group_out, monVars>>

\* The vehicle tasks main spawns.
simulate_car ==
    \/ \E c \in Cars : CarSpawn(c)
    \/ \E c \in Cars : CarEntryDone(c)
    \/ \E c \in Cars : CarEnterLane(c)
    \/ \E c \in Cars : CarSeeGreen(c)
    \/ \E c \in Cars : CarLeaveLane(c)
    \/ \E c \in Cars : CarComplete(c)
    \/ \E c \in Cars : BerrySpawn(c)
    \/ \E c \in Cars : BerryEnter(c)
    \/ \E c \in Cars : BerryPublish(c)
    \/ \E c \in Cars : BerryLeave(c)
    \/ \E c \in Cars : BerryComplete(c)

(***************************************************************************)
(* Flow Analyzer.                                                          *)
(***************************************************************************)
\* A payload serde_json cannot read as a TrafficUpdate.
Malformed == [malformed |-> TRUE]

NoUpdate == [none |-> TRUE]

WellFormed(u) == "lane_id" \in DOMAIN u

\* A mutation of the threshold test: strictly more than the threshold.
Congested_Strict(u) == u.vehicle_count > CongestionThreshold

\* update.vehicle_count >= 4
Congested(u) == u.vehicle_count >= CongestionThreshold

Bump(n) == IF n < CountCap THEN n + 1 ELSE n

\* A mutation of the loop: a payload that is not a TrafficUpdate ends it.
AnalyzeUpdate_Halt ==
    /\ fa_pc = "idle"
    /\ traffic_updates # << >>
    /\ LET u == Head(traffic_updates)
       IN  /\ update' = u
           /\ IF ~WellFormed(u)
              THEN /\ UNCHANGED <<recommendations, emitted>>
                   /\ fa_pc' = "halted"
              ELSE IF Congested(u)
              THEN /\ HasRoom(recommendations)
                   /\ recommendations' =
                        Append(recommendations,
                               Recommendation(u.lane_id, NewGreenTime))
                   /\ emitted' = Bump(emitted)
                   /\ fa_pc' = "publish_log"
              ELSE /\ UNCHANGED <<recommendations, emitted>>
                   /\ fa_pc' = "ack"
    /\ traffic_updates' = Tail(traffic_updates)
    /\ logs' = << >>
    /\ UNCHANGED <<lanes, tlVars, light_status, light_status_map, carVars>>

\* The loop takes a delivery; a well-formed update at or over the threshold
\* has its Recommendation published.
AnalyzeUpdate ==
    /\ fa_pc = "idle"
    /\ traffic_updates # << >>
    /\ LET u == Head(traffic_updates)
       IN  /\ update' = u
           /\ IF WellFormed(u) /\ Congested(u)
              THEN /\ HasRoom(recommendations)
                   /\ recommendations' =
                        Append(recommendations,
                               Recommendation(u.lane_id, NewGreenTime))
                   /\ emitted' = Bump(emitted)
                   /\ fa_pc' = "publish_log"
              ELSE /\ UNCHANGED <<recommendations, emitted>>
                   /\ fa_pc' = "ack"
    /\ traffic_updates' = Tail(traffic_updates)
    /\ logs' = << >>
    /\ UNCHANGED <<lanes, tlVars, light_status, light_status_map, carVars>>

PublishAnalyzerLog ==
    /\ fa_pc = "publish_log"
    /\ logs' = << LogEvent(<<"FlowAnalyzer">>,
                           <<"Published recommendation for lane",
                             update.lane_id>>) >>
    /\ fa_pc' = "ack"
    /\ UNCHANGED <<lanes, tlVars, busVars, light_status_map, carVars,
                   traffic_updates, update, emitted>>

AckUpdate ==
    /\ fa_pc = "ack"
    /\ fa_pc' = "idle"
    /\ update' = NoUpdate
    /\ logs' = << >>
    /\ UNCHANGED <<lanes, tlVars, busVars, light_status_map, carVars,
                   traffic_updates, emitted>>

run_flow_analyzer ==
    \/ AnalyzeUpdate
    \/ PublishAnalyzerLog
    \/ AckUpdate

InitFA ==
    /\ traffic_updates = << >>
    /\ fa_pc = "idle"
    /\ update = NoUpdate
    /\ emitted = 0

(***************************************************************************)
(* System Monitor.                                                         *)
(***************************************************************************)
\* serde_json reads the payload as a LogEvent.
IsLogEvent(d) == "source" \in DOMAIN d

\* println!("[Time: {}] {}: {}", log.timestamp, log.source, log.message)
LogLine(log) == [stream |-> "stdout", source |-> log.source,
                 message |-> log.message]

\* A mutation of the loop: it goes on to the next delivery without the ack.
MonitorReceive_NoAck ==
    /\ mon_pc = "idle"
    /\ log_queue # << >>
    /\ Len(consumed) < MaxLines
    /\ LET delivery == Head(log_queue)
       IN  /\ consumed' = Append(consumed, delivery)
           /\ printed' = IF IsLogEvent(delivery)
                         THEN Append(printed, LogLine(delivery))
                         ELSE printed
    /\ log_queue' = Tail(log_queue)
    /\ mon_pc' = "idle"
    /\ logs' = << >>
    /\ UNCHANGED <<lanes, tlVars, busVars, light_status_map, faVars, engine,
                   cpc, input_lane, exit_lane, lane_route, ri, count,
                   occupancy, sim_complete, events, unpublished, peak,
                   plan_out, plan_first, group_out>>

\* The loop takes a delivery and prints it when it is a LogEvent.
MonitorReceive ==
    /\ mon_pc = "idle"
    /\ log_queue # << >>
    /\ Len(consumed) < MaxLines
    /\ LET delivery == Head(log_queue)
       IN  /\ consumed' = Append(consumed, delivery)
           /\ printed' = IF IsLogEvent(delivery)
                         THEN Append(printed, LogLine(delivery))
                         ELSE printed
    /\ log_queue' = Tail(log_queue)
    /\ mon_pc' = "ack"
    /\ logs' = << >>
    /\ UNCHANGED <<lanes, tlVars, busVars, light_status_map, faVars, engine,
                   cpc, input_lane, exit_lane, lane_route, ri, count,
                   occupancy, sim_complete, events, unpublished, peak,
                   plan_out, plan_first, group_out>>

\* delivery.ack(...).await
MonitorAck ==
    /\ mon_pc = "ack"
    /\ mon_pc' = "idle"
    /\ logs' = << >>
    /\ UNCHANGED <<lanes, tlVars, busVars, light_status_map, faVars, engine,
                   cpc, input_lane, exit_lane, lane_route, ri, count,
                   occupancy, sim_complete, events, unpublished, peak,
                   plan_out, plan_first, group_out,
                   log_queue, consumed, printed>>

run_monitoring ==
    \/ MonitorReceive
    \/ MonitorAck

InitMon ==
    /\ log_queue = << >>
    /\ mon_pc = "idle"
    /\ consumed = << >>
    /\ printed = << >>

(***************************************************************************)
(* The other side of the exchanges, for a service taken alone.             *)
(***************************************************************************)
\* Any publisher may put a payload on "simulation.updates".
BusTrafficUpdate ==
    /\ HasRoom(traffic_updates)
    /\ \/ \E id \in LaneIds, n \in 0..MaxVehicleCount :
            traffic_updates' = Append(traffic_updates, TrafficUpdate(id, n))
       \/ traffic_updates' = Append(traffic_updates, Malformed)
    /\ logs' = << >>
    /\ UNCHANGED <<lanes, tlVars, busVars, light_status_map, carVars, fa_pc,
                   update, emitted>>

\* A subscriber of "simulation.updates" takes the next delivery.
BusUpdateDelivered ==
    /\ traffic_updates # << >>
    /\ traffic_updates' = Tail(traffic_updates)
    /\ logs' = << >>
    /\ UNCHANGED <<lanes, tlVars, busVars, light_status_map, carVars, fa_pc,
                   update, emitted>>

\* A subscriber of "recommendations" takes the next delivery.
BusRecommendationDelivered ==
    /\ recommendations # << >>
    /\ recommendations' = Tail(recommendations)
    /\ logs' = << >>
    /\ UNCHANGED <<lanes, tlVars, light_status, light_status_map, carVars,
                   faVars>>

\* The lanes whose status some vehicle task reads.
WatchedLanes == UNION { Range(lane_route[c]) : c \in Cars }

\* A controller publishes a status for one of its lanes.  Only the statuses
\* a vehicle task reads are followed; the Berry engine has no listener.
BusLightStatus ==
    /\ engine = "RabbitMQ"
    /\ HasRoom(light_status)
    /\ \E id \in ControlledLanes \cap WatchedLanes, st \in {"Green", "Red"} :
         light_status' = Append(light_status, LightStatusMsg(id, st))
    /\ logs' = << >>
    /\ UNCHANGED <<lanes, tlVars, recommendations, light_status_map, carVars,
                   faVars>>

(***************************************************************************)
(* The controller as an open service: any publisher may put a              *)
(* Recommendation on the exchange.                                         *)
(***************************************************************************)
BusRecommendation ==
    /\ HasRoom(recommendations)
    /\ \E id \in LaneIds :
         recommendations' = Append(recommendations,
                                   Recommendation(id, NewGreenTime))
    /\ logs' = << >>
    /\ UNCHANGED <<lanes, tlVars, light_status, light_status_map, carVars,
                   faVars>>

\* The cycle tasks, one per junction.
JunctionStep ==
    \/ \E j \in Junctions : WriteGreen(j)
    \/ \E j \in Junctions : ReadStatus(j)
    \/ \E j \in Junctions : PublishStatus(j)
    \/ \E j \in Junctions : PublishPhaseLog(j)
    \/ \E j \in Junctions : WriteAllRed(j)
    \/ \E j \in Junctions : PublishRed(j)
    \/ \E j \in Junctions : NextGroup(j)

RecommendationStep ==
    \/ ReceiveRecommendation
    \/ PublishRecommendationLog
    \/ AckRecommendation

InitController ==
    /\ lanes = TableTL
    /\ InitTL
    /\ age = << >>
    /\ light_status_map = << >>
    /\ engine = "RabbitMQ"
    /\ InitSim(0)
    /\ InitFA
    /\ InitMon

NextController ==
    \/ JunctionStep
    \/ RecommendationStep
    \/ listen_for_light_statuses
    \/ BusRecommendation

SpecTL == InitController /\ [][NextController]_vars

(***************************************************************************)
(* The Flow Analyzer as an open service.                                   *)
(***************************************************************************)
InitCycle ==
    /\ lanes = TableCycle
    /\ InitTL
    /\ age = [j \in Junctions |-> [g \in 1..Len(Groups(j)) |-> 0]]
    /\ light_status_map = << >>
    /\ engine = "RabbitMQ"
    /\ InitSim(0)
    /\ InitFA
    /\ InitMon

SpecCycle == InitCycle /\ [][NextController]_vars

\* One step of the cycle task of junction j.
CycleTaskStep(j) ==
    \/ WriteGreen(j) \/ ReadStatus(j) \/ PublishStatus(j) \/ PublishPhaseLog(j)
    \/ WriteAllRed(j) \/ PublishRed(j) \/ NextGroup(j)

CycleJunctions == { l.end_intersection : l \in Range(TableCycle) }

\* The scheduling of the controller's tasks: the tokio Mutex hands the lock
\* over in request order, so a cycle task that asks for it again and again
\* gets it; a task that can run is run; the subscriber drains its queue.
CycleFairness ==
    /\ \A j \in CycleJunctions : SF_vars(CycleTaskStep(j))
    /\ WF_vars(PublishRecommendationLog \/ AckRecommendation)
    /\ WF_vars(listen_for_light_statuses)

SpecCycleFair == SpecCycle /\ CycleFairness

(***************************************************************************)
(* The route planner on drawn lane tables.                                 *)
(***************************************************************************)
PlanNodes == {1, 2, 3}

PlanLengths == {0, 2}

\* The internal lanes a table is drawn from: any two different plan nodes.
PlanLaneChoices ==
    { c \in PlanNodes \X PlanNodes \X PlanLengths : c[1] # c[2] }

\* The table of the internal lanes t, parallel lanes and cycles included,
\* after an entry lane into 1 and an exit lane out of 3.
PlanTable(t) ==
    << Lane(1010, 0, 1, 200, "InputBoundary"),
       Lane(1002, 3, 0, 100, "OutputBoundary") >>
    \o [i \in DOMAIN t |->
           Lane(2000 + i, t[i][1], t[i][2], t[i][3], "Internal")]

PlanCall(s, e) ==
    [start |-> s, end |-> e, result |-> find_lane_path(s, e, InternalLanes)]

\* The call a vehicle makes that drew the entry lane and the exit lane of the
\* table: from the end of the one to the start of the other.
IsBoundaryCall(s, e) ==
    /\ \E l \in Range(lanes) :
          l.category = "InputBoundary" /\ l.end_intersection = s
    /\ \E l \in Range(lanes) :
          l.category = "OutputBoundary" /\ l.start_intersection = e

\* A vehicle task calls find_lane_path on the internal lanes of the table.
\* The history keeps the first call made for the boundary lanes.
Plan ==
    /\ \E s \in PlanNodes, e \in PlanNodes :
          /\ plan_out' = << PlanCall(s, e) >>
          /\ plan_first' = IF plan_first = << >> /\ IsBoundaryCall(s, e)
                           THEN plan_out' ELSE plan_first
    /\ logs' = << >>
    /\ UNCHANGED <<lanes, tlVars, busVars, light_status_map, faVars, engine,
                   cpc, input_lane, exit_lane, lane_route, ri, count,
                   occupancy, sim_complete, events, unpublished, peak,
                   group_out, monVars>>

InitPlan ==
    /\ \E n \in 0..MaxPlanLanes : \E t \in [1..n -> PlanLaneChoices] :
          lanes = PlanTable(t)
    /\ InitTL
    /\ age = << >>
    /\ light_status_map = << >>
    /\ engine = "RabbitMQ"
    /\ InitSim(0)
    /\ InitFA
    /\ InitMon

NextPlan == Plan

SpecPlan == InitPlan /\ [][NextPlan]_vars

(***************************************************************************)
(* The grouping of the lanes of a junction on drawn lane tables.           *)
(***************************************************************************)
\* The junction the drawn lanes enter: row 1 of the grid, column 0.
GroupJunction == 5

\* Where a drawn lane starts: outside the grid (0) or at another junction.
GroupStarts == (0..16) \ {GroupJunction}

GroupTable(t) ==
    [i \in DOMAIN t |->
        Lane(3000 + i, t[i], GroupJunction, 300,
             IF t[i] = 0 THEN "InputBoundary" ELSE "Internal")]

\* A cycle task groups its lane_list; the call is kept with the angle of
\* every lane.
GroupCall ==
    /\ \E j \in Junctions :
          group_out' =
             << [ids    |-> [i \in DOMAIN lane_list(j) |-> lane_list(j)[i].id],
                 angles |-> [i \in DOMAIN lane_list(j) |->
                               compute_lane_angle(lane_list(j)[i])],
                 result |-> group_lanes_by_direction(lane_list(j))] >>
    /\ logs' = << >>
    /\ UNCHANGED <<lanes, tlVars, busVars, light_status_map, faVars, engine,
                   cpc, input_lane, exit_lane, lane_route, ri, count,
                   occupancy, sim_complete, events, unpublished, peak,
                   plan_out, plan_first, monVars>>

InitGroup ==
    /\ \E n \in 1..MaxGroupLanes : \E t \in [1..n -> GroupStarts] :
          lanes = GroupTable(t)
    /\ InitTL
    /\ age = << >>
    /\ light_status_map = << >>
    /\ engine = "RabbitMQ"
    /\ InitSim(0)
    /\ InitFA
    /\ InitMon

NextGroupCall == GroupCall

SpecGroup == InitGroup /\ [][NextGroupCall]_vars

(***************************************************************************)
(* The grouping at the junctions of the shipped input lanes, with internal *)
(* lanes drawn from the neighbouring junctions.                            *)
(***************************************************************************)
\* The input boundary lanes of load_lanes.
ShippedInputLanes ==
    << Lane(1010, 0, 1, 200, "InputBoundary"),
       Lane(1011, 0, 2, 300, "InputBoundary"),
       Lane(1012, 0, 4, 100, "InputBoundary"),
       Lane(1013, 0, 5, 400, "InputBoundary"),
       Lane(1014, 0, 12, 400, "InputBoundary"),
       Lane(1015, 0, 15, 200, "InputBoundary"),
       Lane(1016, 0, 16, 500, "InputBoundary"),
       Lane(1017, 0, 16, 400, "InputBoundary") >>

\* The direction of travel the ZeroMQ table records for each of them.
InputDirection ==
    [id \in 1010..1017 |->
        CASE id \in {1010, 1013} -> "East"
          [] id \in {1011, 1012} -> "South"
          [] id \in {1014, 1016} -> "West"
          [] id \in {1015, 1017} -> "North"]

InputJunctions ==
    { ShippedInputLanes[i].end_intersection : i \in DOMAIN ShippedInputLanes }

\* The junctions next to j on the 4x4 grid.
Neighbours(j) ==
    { s \in 1..16 :
        LET a == intersection_to_coords(s)
            b == intersection_to_coords(j)
        IN  Abs(a[1] - b[1]) + Abs(a[2] - b[2]) = 1 }

ApproachTable(j, t) ==
    SelectSeq(ShippedInputLanes, LAMBDA l : l.end_intersection = j)
      \o [i \in DOMAIN t |-> Lane(3100 + i, t[i], j, 300, "Internal")]

InitApproach ==
    /\ \E j \in InputJunctions : \E n \in 0..MaxApproachLanes :
          \E t \in [1..n -> Neighbours(j)] : lanes = ApproachTable(j, t)
    /\ InitTL
    /\ age = << >>
    /\ light_status_map = << >>
    /\ engine = "RabbitMQ"
    /\ InitSim(0)
    /\ InitFA
    /\ InitMon

SpecApproach == InitApproach /\ [][NextGroupCall]_vars

InitAnalyzer ==
    /\ lanes = TableLoop
    /\ InitTL
    /\ age = << >>
    /\ light_status_map = << >>
    /\ engine = "RabbitMQ"
    /\ InitSim(0)
    /\ InitFA
    /\ InitMon

NextAnalyzer ==
    \/ run_flow_analyzer
    \/ BusTrafficUpdate
    \/ BusRecommendationDelivered

SpecFA == InitAnalyzer /\ [][NextAnalyzer]_vars

(***************************************************************************)
(* The System Monitor as an open service.                                  *)
(***************************************************************************)
\* The payloads a publisher puts on "logs".
LogPayloads ==
    { LogEvent(<<"FlowAnalyzer">>, <<"Published recommendation for lane", 1010>>),
      LogEvent(<<"Simulation">>, <<"Simulation complete">>),
      Malformed }

BusLog ==
    /\ HasRoom(log_queue)
    /\ \E d \in LogPayloads : log_queue' = Append(log_queue, d)
    /\ logs' = << >>
    /\ UNCHANGED <<lanes, tlVars, busVars, light_status_map, faVars, engine,
                   cpc, input_lane, exit_lane, lane_route, ri, count,
                   occupancy, sim_complete, events, unpublished, peak,
                   plan_out, plan_first, group_out,
                   mon_pc, consumed, printed>>

InitMonitoring ==
    /\ lanes = TableLoop
    /\ InitTL
    /\ age = << >>
    /\ light_status_map = << >>
    /\ engine = "RabbitMQ"
    /\ InitSim(0)
    /\ InitFA
    /\ InitMon

NextMonitoring ==
    \/ run_monitoring
    \/ BusLog

SpecMon == InitMonitoring /\ [][NextMonitoring]_vars

(***************************************************************************)
(* The four subscriber loops, each with deliveries waiting in its queue    *)
(* when it is first scheduled.                                             *)
(***************************************************************************)
\* The queues of up to MaxAckQueue payloads drawn from set S.
Waiting(S) == UNION { [1..n -> S] : n \in 1..MaxAckQueue }

TrafficUpdatePayloads ==
    { TrafficUpdate(id, n) : id \in { l.id : l \in Range(TableLoop) },
                             n \in 0..MaxVehicleCount } \cup {Malformed}

RecommendationPayloads ==
    { Recommendation(l.id, NewGreenTime) : l \in Range(TableLoop) }

LightStatusPayloads ==
    { LightStatusMsg(l.id, st) : l \in Range(TableLoop),
                                 st \in {"Green", "Red"} } \cup {Malformed}

InitAck ==
    /\ lanes = TableLoop
    /\ traffic_lights = initialize_traffic_lights
    /\ jpc = [j \in Junctions |-> "write_green"]
    /\ jk = [j \in Junctions |-> 0]
    /\ groups = [j \in Junctions |-> group_lanes_by_direction(lane_list(j))]
    /\ group_index = [j \in Junctions |-> 0]
    /\ status = [j \in Junctions |-> "Red"]
    /\ sleep_for = [j \in Junctions |-> 0]
    /\ lock = "none"
    /\ rec_pc = "idle"
    /\ rec = NoRec
    /\ logs = << >>
    /\ age = << >>
    /\ light_status_map = << >>
    /\ engine = "RabbitMQ"
    /\ InitSim(0)
    /\ fa_pc = "idle"
    /\ update = NoUpdate
    /\ emitted = 0
    /\ mon_pc = "idle"
    /\ consumed = << >>
    /\ printed = << >>
    /\ \/ /\ traffic_updates \in Waiting(TrafficUpdatePayloads)
          /\ recommendations = << >>
          /\ light_status = << >>
          /\ log_queue = << >>
       \/ /\ traffic_updates = << >>
          /\ recommendations \in Waiting(RecommendationPayloads)
          /\ light_status = << >>
          /\ log_queue = << >>
       \/ /\ traffic_updates = << >>
          /\ recommendations = << >>
          /\ light_status \in Waiting(LightStatusPayloads)
          /\ log_queue = << >>
       \/ /\ traffic_updates = << >>
          /\ recommendations = << >>
          /\ light_status = << >>
          /\ log_queue \in Waiting(LogPayloads)

NextAck ==
    \/ run_flow_analyzer
    \/ RecommendationStep
    \/ listen_for_light_statuses
    \/ run_monitoring

SpecAck == InitAck /\ [][NextAck]_vars

(***************************************************************************)
(* The Simulation Engine (either variant) with NumCars vehicles, fed light *)
(* statuses by the bus.                                                    *)
(***************************************************************************)
InitSimulation ==
    /\ lanes = TableSim
    /\ InitTL
    /\ age = << >>
    /\ light_status_map = << >>
    /\ InitSim(NumCars)
    /\ InitFA
    /\ InitMon

NextSimulation ==
    \/ simulate_car
    \/ SimulationComplete
    \/ listen_for_light_statuses
    \/ BusLightStatus
    \/ BusUpdateDelivered

SpecSim == InitSimulation /\ [][NextSimulation]_vars

(***************************************************************************)
(* The RabbitMQ Simulation Engine with LiveCars vehicles and the           *)
(* controller's cycle tasks, joined by the light_status exchange.          *)
(***************************************************************************)
InitLive ==
    /\ lanes = TableLoop
    /\ InitTL
    /\ age = << >>
    /\ light_status_map = << >>
    /\ engine = "RabbitMQ"
    /\ InitSim(LiveCars)
    /\ InitFA
    /\ InitMon

\* One step of the task of vehicle c.
CarStep(c) ==
    \/ CarSpawn(c) \/ CarEntryDone(c) \/ CarEnterLane(c) \/ CarSeeGreen(c)
    \/ CarLeaveLane(c) \/ CarComplete(c)

NextLive ==
    \/ \E c \in Cars : CarSpawn(c)
    \/ \E c \in Cars : CarEntryDone(c)
    \/ \E c \in Cars : CarEnterLane(c)
    \/ \E c \in Cars : CarSeeGreen(c)
    \/ \E c \in Cars : CarLeaveLane(c)
    \/ \E c \in Cars : CarComplete(c)
    \/ SimulationComplete
    \/ listen_for_light_statuses
    \/ JunctionStep

SpecLive == InitLive /\ [][NextLive]_vars

LiveJunctions ==
    { l.end_intersection : l \in Range(TableLoop) } \ {0}

\* The scheduling of the tasks: a vehicle polls its light every 100 ms while
\* a green phase lasts 5 s, so a poll falls in every green phase; a publish
\* on the bus returns, so a cycle task that publishes again and again gets
\* through; the listener drains its queue; main runs once it can.
LiveFairness ==
    /\ \A c \in 1..LiveCars : SF_vars(CarStep(c))
    /\ \A j \in LiveJunctions : SF_vars(CycleTaskStep(j))
    /\ WF_vars(listen_for_light_statuses)
    /\ WF_vars(SimulationComplete)

SpecLiveFair == SpecLive /\ LiveFairness

(***************************************************************************)
(* The feedback loop: as many vehicles as the congestion threshold, all    *)
(* on the same lanes, the Flow Analyzer and the controller's               *)
(* recommendation loop.                                                    *)
(***************************************************************************)
Init ==
    /\ lanes = TableLoop
    /\ InitTL
    /\ age = << >>
    /\ light_status_map = << >>
    /\ InitSim(CongestionThreshold)
    /\ InitFA
    /\ InitMon

Next ==
    \/ simulate_car
    \/ SimulationComplete
    \/ listen_for_light_statuses
    \/ BusLightStatus
    \/ run_flow_analyzer
    \/ RecommendationStep

Spec == Init /\ [][Next]_vars

(***************************************************************************)
(* Claims about the Traffic Light Controller (checked under SpecTL).       *)
(***************************************************************************)
GreenLanesAt(j) ==
    { id \in { l.id : l \in Range(lane_list(j)) } : traffic_lights[id] = "Green" }

\* C1: at every junction the set of Green lanes is empty or exactly the lane
\* set of one of the junction's groups; lanes of two groups are never Green
\* together.
C1_OneGroupGreen ==
    \A j \in Junctions :
        \/ GreenLanesAt(j) = {}
        \/ \E i \in DOMAIN Groups(j) : GreenLanesAt(j) = Range(Groups(j)[i])

\* A step in which the recommendation loop takes a delivery.
RecommendationTaken == rec_pc = "idle" /\ rec_pc' # "idle"

\* C8: the step that processes a Recommendation for a controlled lane L leaves
\* LightMap[L] = Green whatever the phase of L's junction, and the loop then
\* publishes exactly one log event for L, with L still Green.
C8_RecommendationSetsGreen ==
    [][ /\ (RecommendationTaken /\ rec'.lane_id \in ControlledLanes)
            => /\ traffic_lights'[rec'.lane_id] = "Green"
               /\ rec_pc' = "publish_log"
        /\ (rec_pc = "publish_log" /\ rec_pc' # "publish_log")
            => /\ logs' = << LogEvent(<<"TrafficLight", rec.lane_id>>,
                                      "Set to Green per recommendation") >>
               /\ traffic_lights'[rec.lane_id] = "Green"
               /\ rec_pc' = "ack"
        /\ (rec_pc = "publish_log" /\ rec_pc' = "publish_log")
            => traffic_lights'[rec.lane_id] = "Green"
      ]_vars

\* A recommendation was applied during the all-red clearance of its junction.
C8_Witness ==
    /\ rec_pc = "publish_log"
    /\ jpc[JunctionOf(rec.lane_id)] = "clearance_hold"
    /\ traffic_lights[rec.lane_id] = "Green"

\* The sleep a cycle task is suspended in lasts the fixed green or clearance
\* duration.
HoldDurationsFixed ==
    \A j \in Junctions :
        sleep_for[j] = IF jpc[j] = "green_hold" THEN GreenDuration
                       ELSE IF jpc[j] = "clearance_hold" THEN ClearanceDuration
                       ELSE 0

\* C9: a step of the recommendation loop changes no junction's group_index,
\* no cycle task's position or hold duration and no lane table entry (so the
\* groups and their order stay); the only colour it may change is that of the
\* named lane.
C9_RecommendationFrame ==
    /\ []HoldDurationsFixed
    /\ [][ (rec_pc' # rec_pc)
            => /\ group_index' = group_index
               /\ jpc' = jpc
               /\ jk' = jk
               /\ sleep_for' = sleep_for
               /\ lanes' = lanes
               /\ \A id \in DOMAIN traffic_lights :
                     id # rec'.lane_id => traffic_lights'[id] = traffic_lights[id]
               /\ DOMAIN traffic_lights' = DOMAIN traffic_lights
          ]_vars

\* A recommendation made a lane Green while its junction holds the green of
\* another group, and the junction still serves that other group.
C9_Witness ==
    /\ rec_pc = "ack"
    /\ rec.lane_id \in ControlledLanes
    /\ jpc[JunctionOf(rec.lane_id)] = "green_hold"
    /\ rec.lane_id \notin CurrentGroup(JunctionOf(rec.lane_id))
    /\ traffic_lights[rec.lane_id] = "Green"

\* The cycle task of junction j has published every colour it wrote.
Published(j) ==
    jpc[j] \in {"write_green", "publish_log", "green_hold", "clearance_hold"}

\* C10: the light_status messages published for a lane follow the colours the
\* lane takes in LightMap, so a subscriber that has consumed every published
\* message holds for each lane the colour of the controller's LightMap.
C10_SubscriberAgrees ==
    (light_status = << >> /\ \A j \in Junctions : Published(j))
        => \A id \in ControlledLanes :
               jpc[JunctionOf(id)] # "write_green"
                   => ObservedStatus(id) = traffic_lights[id]

(***************************************************************************)
(* Claims about the Simulation Engine (checked under SpecSim).             *)
(***************************************************************************)
\* C2: the occupancy of every lane is a count, never below 0: no decrement
\* is applied to a lane whose counter is 0, under any interleaving of the
\* vehicle tasks.
C2_OccupancyNonNegative ==
    \A id \in LaneIds : Count(id) >= 0 /\ Count(id) # Underflow

\* A vehicle has left a lane on which another vehicle still is.
C2_Witness ==
    \E c \in Cars, id \in LaneIds :
        /\ Event("leave", id) \in Range(events[c])
        /\ Count(id) = 1

Occurrences(s, e) == Cardinality({ i \in DOMAIN s : s[i] = e })

AllDone == Cars # {} /\ \A c \in Cars : cpc[c] = "done"

\* C3: a vehicle that has completed its journey has as many enter events as
\* leave events on every lane, and once all vehicles have completed every
\* lane's occupancy is back to 0.
C3_Conservation ==
    /\ \A c \in Cars :
          cpc[c] = "done" =>
             \A id \in LaneIds :
                Occurrences(events[c], Event("enter", id))
                  = Occurrences(events[c], Event("leave", id))
    /\ AllDone => \A id \in LaneIds : Count(id) = 0

\* All vehicles have completed, each after using a lane, one of them after a
\* route of two lanes.
C3_Witness ==
    /\ sim_complete
    /\ \A c \in Cars : events[c] # << >>
    /\ \E c \in Cars : Len(events[c]) = 4

\* C4: every enter and every leave of a vehicle is published as a
\* TrafficUpdate: a vehicle has at most the event it is about to publish
\* outstanding, and none once its journey is complete.
C4_EveryEventPublished ==
    \A c \in Cars :
        /\ unpublished[c] <= 1
        /\ cpc[c] = "done" => unpublished[c] = 0

(***************************************************************************)
(* Claims about the Flow Analyzer (checked under SpecFA).                  *)
(***************************************************************************)
\* C6: for a well-formed update with vehicle_count >= 4 the analyzer
\* publishes exactly one Recommendation {lane_id of the update, 40} and then
\* exactly one log event; for any other delivery it publishes nothing.  The
\* outcome is a function of the delivery alone.
C6_AnalyzerDecision ==
    [][ /\ (fa_pc = "idle" /\ fa_pc' # "idle")
            => LET u == Head(traffic_updates)
               IN  /\ logs' = << >>
                   /\ IF WellFormed(u) /\ u.vehicle_count >= 4
                      THEN /\ recommendations' =
                                Append(recommendations,
                                       Recommendation(u.lane_id, 40))
                           /\ fa_pc' = "publish_log"
                      ELSE /\ recommendations' = recommendations
                           /\ fa_pc' = "ack"
        /\ (fa_pc = "publish_log" /\ fa_pc' # "publish_log")
            => /\ logs' = << LogEvent(<<"FlowAnalyzer">>,
                                      <<"Published recommendation for lane",
                                        update.lane_id>>) >>
               /\ recommendations' = recommendations
               /\ fa_pc' = "ack"
        /\ (fa_pc = "ack" /\ fa_pc' # "ack")
            => /\ logs' = << >>
               /\ recommendations' = recommendations
               /\ fa_pc' = "idle"
        /\ Len(recommendations') > Len(recommendations)
            => fa_pc = "idle" /\ fa_pc' = "publish_log"
      ]_vars

\* An update with exactly the threshold count has been answered by its
\* Recommendation and its log event.
C6_Witness ==
    /\ fa_pc = "ack"
    /\ WellFormed(update)
    /\ update.vehicle_count = CongestionThreshold
    /\ recommendations = << Recommendation(update.lane_id, NewGreenTime) >>
    /\ Len(logs) = 1

(***************************************************************************)
(* Claims about the feedback loop (checked under Spec).                    *)
(***************************************************************************)
\* Nothing is in flight: no vehicle is about to publish, both queues are
\* empty and both loops wait for a delivery.
Settled ==
    /\ \A c \in Cars : cpc[c] \notin {"publish_enter", "publish_leave"}
    /\ traffic_updates = << >>
    /\ fa_pc = "idle"
    /\ recommendations = << >>
    /\ rec_pc = "idle"

\* C5: when the occupancy of a lane has reached the threshold then, once
\* everything in flight has been processed, the analyzer has emitted a
\* Recommendation for the lane and the controller has set it to Green.
C5_FeedbackLoop ==
    \A id \in LaneIds :
        (peak[id] >= CongestionThreshold /\ Settled)
            => /\ emitted >= 1
               /\ id \in ControlledLanes
               /\ traffic_lights[id] = "Green"

\* C7: with four vehicles sharing a lane (and no other lane any vehicle
\* counts on) the analyzer emits exactly one Recommendation over the run: never more than one, none before the
\* occupancy has reached 4, and one once that has been processed.
C7_ExactlyOneRecommendation ==
    /\ emitted <= 1
    /\ emitted = 1 => \E id \in LaneIds : peak[id] >= CongestionThreshold
    /\ \A id \in LaneIds :
          (peak[id] >= CongestionThreshold /\ Settled) => emitted = 1

(***************************************************************************)
(* Claims about the phase cycle (checked under SpecTL).                    *)
(***************************************************************************)
\* The positions of a cycle task, in the order the loop body visits them.
CycleEdges ==
    { <<"write_green", "read_status">>, <<"read_status", "publish_status">>,
      <<"publish_status", "read_status">>, <<"publish_status", "publish_log">>,
      <<"publish_log", "green_hold">>, <<"green_hold", "publish_red">>,
      <<"publish_red", "clearance_hold">>, <<"clearance_hold", "write_green">> }

LaneIdsAt(j) == { l.id : l \in Range(lane_list(j)) }

\* C11: every cycle task starts with Green(0) and moves Green(i) -> AllRed ->
\* Green((i+1) mod N) for ever: the green write makes exactly group i Green,
\* the all-red write follows the green hold, the index advances by one
\* (mod N) after the clearance hold and at no other step, and every position
\* of the task has a next position: none is terminal.
C11_PhaseCycle ==
    /\ \A j \in Junctions : jpc[j] = "write_green" /\ group_index[j] = 0
    /\ [][\A j \in Junctions :
             /\ HoldDurationsFixed
             /\ group_index[j] \in 0..(Len(Groups(j)) - 1)
             /\ jpc[j] \in { e[1] : e \in CycleEdges }
             /\ jpc'[j] # jpc[j] => <<jpc[j], jpc'[j]>> \in CycleEdges
             /\ (jpc[j] = "write_green" /\ jpc'[j] # jpc[j])
                    => \A id \in LaneIdsAt(j) :
                          traffic_lights'[id] = "Green"
                             <=> id \in Range(Groups(j)[group_index[j] + 1])
             /\ (jpc[j] = "green_hold" /\ jpc'[j] # jpc[j])
                    => \A id \in LaneIdsAt(j) : traffic_lights'[id] = "Red"
             /\ group_index'[j] =
                   IF jpc[j] = "clearance_hold" /\ jpc'[j] # jpc[j]
                   THEN (group_index[j] + 1) % Len(Groups(j))
                   ELSE group_index[j]
       ]_vars

\* A junction of several groups is in the clearance that follows the green of
\* its last group: the index is about to wrap to 0.
C11_Witness ==
    \E j \in Junctions :
        /\ Len(Groups(j)) >= 2
        /\ group_index[j] = Len(Groups(j)) - 1
        /\ jpc[j] = "clearance_hold"

\* C12: no group of a junction waits longer than group_count periods of
\* GreenDuration + ClearanceDuration seconds for its green write, counted from
\* its previous green write or from the start, and under fair scheduling every
\* group is written Green again and again.
C12_EveryGroupServed ==
    /\ [][\A j \in DOMAIN age : \A g \in DOMAIN age[j] :
             age'[j][g] <= Len(Groups(j)) * (GreenDuration + ClearanceDuration)
         ]_vars
    /\ \A j \in CycleJunctions : \A g \in 1..Len(TableCycle) :
          []<>(g \in DOMAIN age[j] =>
                  /\ age[j][g] = 0
                  /\ jpc[j] = "read_status"
                  /\ group_index[j] = g - 1)

\* The last group of a junction of three groups has just been written Green,
\* two full periods after the start; the first group has waited since then.
C12_Witness ==
    \E j \in DOMAIN age :
        /\ Len(Groups(j)) = 3
        /\ jpc[j] = "read_status"
        /\ group_index[j] = 2
        /\ age[j][3] = 0
        /\ age[j][1] = 2 * (GreenDuration + ClearanceDuration)

\* The lanes whose occupancy vehicle c changes, in order.
Travelled(c) ==
    IF engine = "RabbitMQ" THEN lane_route[c] ELSE << input_lane[c] >>

ExpectedEvents(route) ==
    [i \in 1..(2 * Len(route)) |->
        Event(IF i % 2 = 1 THEN "enter" ELSE "leave", route[(i + 1) \div 2])]

\* C13: the events of a vehicle are enter(l1), leave(l1), enter(l2), leave(l2),
\* ... over its route: what it has done is a prefix of that sequence, every
\* new event is the next one of the sequence (so no lane is left before it is
\* entered and the vehicle is inside at most one lane), and the vehicle is done
\* with the whole sequence, every route lane entered and left exactly once.
C13_EventOrder ==
    [][\A c \in Cars :
          LET exp == ExpectedEvents(Travelled(c))
              n   == Len(events[c])
          IN  /\ n <= Len(exp)
              /\ events[c] = SubSeq(exp, 1, n)
              /\ events'[c] # events[c] =>
                    /\ n < Len(exp)
                    /\ events'[c] = Append(events[c], exp[n + 1])
              /\ cpc'[c] = "done" => events'[c] = exp
              /\ \A i, k \in DOMAIN Travelled(c) :
                    i # k => Travelled(c)[i] # Travelled(c)[k]
      ]_vars

\* A vehicle has finished a route of two lanes.
C13_Witness ==
    \E c \in Cars :
        /\ engine = "RabbitMQ"
        /\ cpc[c] = "done"
        /\ Len(lane_route[c]) = 2
        /\ Len(events[c]) = 4

\* C14: a vehicle leaves the polling loop of a lane only for the drive, and only
\* from a state where the light_status_map holds "Green" for the lane; a lane
\* without an entry holds the vehicle, which is counted in the lane's
\* occupancy while it waits.
C14_DriveOnlyOnGreen ==
    [][\A c \in Cars :
          cpc[c] = "wait" =>
             LET id == lane_route[c][ri[c]]
             IN  /\ Count(id) >= 1
                 /\ cpc'[c] # "wait" =>
                       /\ cpc'[c] = "drive"
                       /\ id \in DOMAIN light_status_map
                       /\ light_status_map[id] = "Green"
                 /\ id \notin DOMAIN light_status_map =>
                       /\ cpc'[c] = "wait"
                       /\ Count(id)' >= 1
      ]_vars

\* One vehicle drives its lane while another waits, counted, in a lane that
\* has no light status yet.
C14_Witness ==
    \E c, d \in Cars :
        /\ cpc[c] = "drive"
        /\ light_status_map[lane_route[c][ri[c]]] = "Green"
        /\ cpc[d] = "wait"
        /\ lane_route[d][ri[d]] \notin DOMAIN light_status_map
        /\ Count(lane_route[d][ri[d]]) >= 1

\* C18: a vehicle whose route is empty (the planner returned None or an empty
\* route) goes from the entry lane straight to the exit lane: its steps are
\* spawn, entry, exit, done; none changes the occupancy, publishes a
\* TrafficUpdate or polls a light; the spawn and the completion publish one
\* log each and no other step publishes a log of the vehicle.
C18_EmptyRoute ==
    [][\A c \in Cars :
          (engine = "RabbitMQ" /\ lane_route[c] = << >>) =>
             /\ cpc'[c] # cpc[c] =>
                   /\ <<cpc[c], cpc'[c]>> \in
                         { <<"spawn", "entry">>, <<"entry", "exit">>,
                           <<"exit", "done">> }
                   /\ occupancy' = occupancy
                   /\ traffic_updates' = traffic_updates
                   /\ events'[c] = << >>
                   /\ unpublished'[c] = 0
                   /\ Len(logs') = IF cpc[c] = "entry" THEN 0 ELSE 1
                   /\ cpc[c] = "spawn" =>
                         logs'[1] = LogEvent(<<"Car", c>>,
                                       <<"Generated vehicle", input_lane[c],
                                         exit_lane[c], << >> >>)
                   /\ cpc[c] = "exit" =>
                         logs'[1] = LogEvent(<<"Car", c>>,
                                             <<"Completed journey">>)
             /\ cpc'[c] = cpc[c] =>
                   \A i \in DOMAIN logs' : logs'[i].source # <<"Car", c>>
      ]_vars

\* A vehicle without a route is done while another vehicle waits at a light.
C18_Witness ==
    \E c, d \in Cars :
        /\ engine = "RabbitMQ"
        /\ lane_route[c] = << >>
        /\ cpc[c] = "done"
        /\ cpc[d] = "wait"
        /\ events[c] = << >>

\* C20: whatever the draws are, a vehicle ends its selection with an
\* InputBoundary lane as input_lane and an OutputBoundary lane as exit_lane,
\* the two of different ids, and the loop that draws the exit lane again ends:
\* no sequence of draws is rejected as a whole.
C20_Selection ==
    /\ \A c \in Cars :
          /\ input_lane[c] \in LaneIds
          /\ LaneById(input_lane[c]).category = "InputBoundary"
          /\ exit_lane[c] \in LaneIds
          /\ LaneById(exit_lane[c]).category = "OutputBoundary"
          /\ exit_lane[c] # input_lane[c]
    /\ \A in \in EntryLaneIds : \A ds \in Draws :
          /\ Resample(in, ds) # NoLane
          /\ Resample(in, ds) # in

\* Two vehicles have been spawned with different exit lanes.
C20_Witness ==
    \E c, d \in Cars :
        /\ cpc[c] # "spawn"
        /\ cpc[d] # "spawn"
        /\ exit_lane[c] # exit_lane[d]
        /\ input_lane[c] # exit_lane[c]

\* The calls of find_lane_path on record.
PlanCalls == Range(plan_out) \cup Range(plan_first)

\* Reference: the intersections a chain of Internal lanes leads to from the
\* set seen, the chain of no lane included.
RECURSIVE ReachableFrom(_)
ReachableFrom(seen) ==
    LET more == { l.end_intersection :
                    l \in { x \in Range(lanes) :
                              /\ x.category = "Internal"
                              /\ x.start_intersection \in seen } }
    IN  IF more \subseteq seen THEN seen ELSE ReachableFrom(seen \cup more)

PathLength(path) ==
    LET RECURSIVE Sum(_)
        Sum(i) == IF i = 0 THEN 0 ELSE LaneById(path[i]).length + Sum(i - 1)
    IN  Sum(Len(path))

\* Reference: the smallest total length of a chain of at most k Internal lanes
\* from s to each intersection it reaches (Bellman-Ford rounds).
RECURSIVE ChainLengths(_, _)
ChainLengths(s, k) ==
    IF k = 0 THEN [v \in {s} |-> 0]
    ELSE LET d   == ChainLengths(s, k - 1)
             ext == { <<l.end_intersection, d[l.start_intersection] + l.length>> :
                        l \in { x \in Range(lanes) :
                                  /\ x.category = "Internal"
                                  /\ x.start_intersection \in DOMAIN d } }
             all == { <<v, d[v]>> : v \in DOMAIN d } \cup ext
         IN  [v \in { p[1] : p \in all } |->
                CHOOSE m \in { p[2] : p \in { q \in all : q[1] = v } } :
                   \A p \in all : p[1] = v => m <= p[2]]

ShortestLength(s, e) == ChainLengths(s, Len(lanes))[e]

\* C15: when a chain of Internal lanes leads from start to end, find_lane_path
\* returns a route; the route holds Internal lanes only and is a chain: its
\* first lane starts at start, every lane ends where the next one starts, its
\* last lane ends at end, and it is empty only when start = end.
C15_RouteIsChain ==
    \A c \in PlanCalls :
        LET p == c.result.path
        IN  /\ c.end \in ReachableFrom({c.start}) => c.result.some
            /\ c.result.some =>
                  /\ \A k \in DOMAIN p :
                        /\ p[k] \in LaneIds
                        /\ LaneById(p[k]).category = "Internal"
                  /\ p = << >> => c.start = c.end
                  /\ p # << >> =>
                        /\ LaneById(p[1]).start_intersection = c.start
                        /\ LaneById(p[Len(p)]).end_intersection = c.end
                  /\ \A k \in 1..(Len(p) - 1) :
                        LaneById(p[k]).end_intersection
                           = LaneById(p[k + 1]).start_intersection

\* A call returned a route of two lanes.
C15_Witness ==
    \E c \in Range(plan_out) :
        /\ c.result.some
        /\ Len(c.result.path) = 2
        /\ c.start # c.end

\* C16: the route find_lane_path returns is a shortest one: the sum of the
\* lengths of its lanes is the smallest total length of any chain of Internal
\* lanes from start to end.
C16_RouteIsShortest ==
    \A c \in PlanCalls :
        c.result.some =>
           /\ c.end \in ReachableFrom({c.start})
           /\ PathLength(c.result.path) = ShortestLength(c.start, c.end)

\* A call returned a route of two lanes although one lane, a longer one, leads
\* from start to end.
C16_Witness ==
    \E c \in Range(plan_out) :
        /\ c.result.some
        /\ Len(c.result.path) = 2
        /\ \E l \in Range(InternalLanes) :
              /\ l.start_intersection = c.start
              /\ l.end_intersection = c.end
              /\ l.length > PathLength(c.result.path)

\* C17: find_lane_path returns Some(empty route) when start = end and None
\* when no chain of Internal lanes leads from start to end; a route it returns
\* is never a part of a route that does not start at start.
C17_PlannerEdgeCases ==
    \A c \in PlanCalls :
        /\ c.start = c.end => c.result = [some |-> TRUE, path |-> << >>]
        /\ c.end \notin ReachableFrom({c.start}) =>
              c.result = [some |-> FALSE, path |-> << >>]
        /\ (c.result.some /\ c.result.path # << >>) =>
              LaneById(c.result.path[1]).start_intersection = c.start

\* The call for the boundary lanes returned None, in a table with internal
\* lanes, and the latest call, with start = end, returned the empty route.
C17_Witness ==
    /\ \E c \in Range(plan_first) : ~c.result.some
    /\ \E c \in Range(plan_out) : c.start = c.end /\ c.result.some
    /\ InternalLanes # << >>

PosIn(c, id) == CHOOSE i \in DOMAIN c.ids : c.ids[i] = id

AngleIn(c, id) == c.angles[PosIn(c, id)]

\* The members of group g that come before position p of the lane list.
MembersBefore(c, g, p) == { id \in Range(g) : PosIn(c, id) < p }

RECURSIVE AngleSum(_, _)
AngleSum(c, ids) ==
    IF ids = {} THEN 0
    ELSE LET id == CHOOSE x \in ids : TRUE
         IN  AngleIn(c, id) + AngleSum(c, ids \ {id})

\* |angle - mean of the angles of ids| <= 20 degrees
NearMean(c, angle, ids) ==
    Abs(angle * Cardinality(ids) - AngleSum(c, ids))
       <= Deg(AngleThreshold) * Cardinality(ids)

\* C21: the groups returned for a lane list are a partition of its lanes,
\* each group in table order; a lane that is not the first of its group was
\* within 20 degrees (inclusive, plain absolute difference) of the mean angle
\* of the members before it; no group opened earlier was within 20 degrees of
\* the lane when it was added; the groups come in ascending order of their
\* mean angle.
C21_Grouping ==
    \A c \in Range(group_out) :
        LET r == c.result
        IN  /\ \A id \in Range(c.ids) :
                  Cardinality({ i \in DOMAIN r : id \in Range(r[i]) }) = 1
            /\ \A i \in DOMAIN r :
                  /\ r[i] # << >>
                  /\ Range(r[i]) \subseteq Range(c.ids)
                  /\ \A a, b \in DOMAIN r[i] :
                        a < b => PosIn(c, r[i][a]) < PosIn(c, r[i][b])
            /\ \A i \in DOMAIN r : \A a \in DOMAIN r[i] :
                  LET id == r[i][a]
                      p  == PosIn(c, id)
                  IN  /\ a > 1 =>
                            NearMean(c, AngleIn(c, id), MembersBefore(c, r[i], p))
                      /\ \A k \in DOMAIN r :
                            PosIn(c, r[k][1]) < PosIn(c, r[i][1]) =>
                               ~NearMean(c, AngleIn(c, id),
                                         MembersBefore(c, r[k], p))
            /\ \A i, k \in DOMAIN r :
                  i < k =>
                     AngleSum(c, Range(r[i])) * Len(r[k])
                        <= AngleSum(c, Range(r[k])) * Len(r[i])

\* A group holds two lanes whose angles differ by more than 20 degrees: the
\* later ones joined through the running average.
C21_Witness ==
    \E c \in Range(group_out) : \E i \in DOMAIN c.result :
        \E a, b \in Range(c.result[i]) :
            AngleIn(c, a) - AngleIn(c, b) > Deg(AngleThreshold)

\* The approach angle the rule of C22 gives a lane.
RuleAngle(lane) ==
    LET e == intersection_to_coords(lane.end_intersection)
    IN  IF lane.start_intersection = 0
        THEN CASE e[1] = 0 -> Deg(90)
               [] e[1] = 3 -> Deg(270)
               [] e[2] = 0 -> Deg(0)
               [] e[2] = 3 -> Deg(180)
               [] OTHER    -> Deg(90)
        ELSE LET s == intersection_to_coords(lane.start_intersection)
                 a == Atan2Deg(e[2] - s[2], e[1] - s[1])
             IN  IF a < 0 THEN a + Deg(360) ELSE a

\* C22: the angle computed for an input boundary lane follows the position of
\* its end junction (row 0: 90, row 3: 270, column 0: 0, column 3: 180, else
\* 90), and the angle of any other lane is atan2(column difference, row
\* difference) in degrees, in [0, 360).
C22_LaneAngles ==
    \A c \in Range(group_out) : \A i \in DOMAIN c.ids :
        /\ c.angles[i] = RuleAngle(LaneById(c.ids[i]))
        /\ c.angles[i] >= Deg(0)
        /\ c.angles[i] < Deg(360)

(***************************************************************************)
(* The Flow Analyzer and payloads that are not a TrafficUpdate.            *)
(***************************************************************************)
\* The loop takes the delivery at the head of its queue.
TakesDelivery == fa_pc = "idle" /\ fa_pc' # "idle"

\* C23: a payload on simulation.updates that is not a TrafficUpdate neither
\* stops nor changes the Flow Analyzer: the step that takes it publishes no
\* Recommendation and goes on to the acknowledgement, the acknowledgement
\* returns the loop to its start with no state kept (the loop waits for the
\* next delivery holding nothing), and a well-formed update taken later is
\* decided by its own vehicle_count alone.
C23_MalformedSkipped ==
    /\ (fa_pc = "idle" => update = NoUpdate)
    /\ [][ /\ (fa_pc' = "idle" => update' = NoUpdate)
           /\ fa_pc' \in {"idle", "publish_log", "ack"}
           /\ (TakesDelivery /\ ~WellFormed(Head(traffic_updates))
                 => /\ recommendations' = recommendations
                    /\ emitted' = emitted
                    /\ fa_pc' = "ack"
                    /\ traffic_updates' = Tail(traffic_updates))
           /\ (fa_pc = "ack" /\ ~WellFormed(update) /\ fa_pc' # "ack"
                 => /\ fa_pc' = "idle"
                    /\ recommendations' = recommendations
                    /\ emitted' = emitted)
           /\ (TakesDelivery /\ WellFormed(Head(traffic_updates))
                 => LET u == Head(traffic_updates)
                    IN  IF Congested(u)
                        THEN recommendations' =
                               Append(recommendations,
                                      Recommendation(u.lane_id, NewGreenTime))
                        ELSE recommendations' = recommendations)
         ]_vars

\* The loop is acknowledging a malformed payload while a congested update
\* waits behind it.
C23_Witness ==
    /\ fa_pc = "ack"
    /\ update = Malformed
    /\ traffic_updates # << >>
    /\ WellFormed(Head(traffic_updates))
    /\ Congested(Head(traffic_updates))

\* C24: the Flow Analyzer publishes an error log for a malformed payload
\* before it drops it: the step that brings the loop to the acknowledgement
\* of a payload that is not a TrafficUpdate publishes a log event.
C24_MalformedLogged ==
    [][ (fa_pc # "ack" /\ fa_pc' = "ack" /\ ~WellFormed(update'))
          => logs' # << >> ]_vars

(***************************************************************************)
(* Recommendations for lanes the controller does not control.              *)
(***************************************************************************)
\* The recommendation loop takes the delivery at the head of its queue.
TakesRecommendation == rec_pc = "idle" /\ rec_pc' # "idle"

\* C26: a Recommendation whose lane_id is not a controlled lane is ignored:
\* the step that takes it leaves the LightMap as it was, with no entry
\* created, and publishes an error log, and the loop goes on to the
\* acknowledgement and back to its start.
C26_UnknownLaneIgnored ==
    [][ /\ (TakesRecommendation
             /\ Head(recommendations).lane_id \notin ControlledLanes
               => /\ traffic_lights' = traffic_lights
                  /\ logs' # << >>
                  /\ rec_pc' = "ack")
        /\ (rec_pc = "ack" /\ rec_pc' # "ack" => rec_pc' = "idle")
      ]_vars

\* C27: at the start every controlled lane (end_intersection != 0) is Red,
\* and in every reachable state the domain of the LightMap is exactly the
\* set of controlled lanes.
C27_LightMapDomain ==
    /\ DOMAIN traffic_lights = ControlledLanes
    /\ \A id \in ControlledLanes : traffic_lights[id] = "Red"
    /\ [][DOMAIN traffic_lights' = ControlledLanes]_vars

\* A Recommendation for a lane that is not controlled has been taken after
\* some light was written Green.
C27_Witness ==
    /\ rec_pc = "ack"
    /\ rec.lane_id \in LaneIds \ ControlledLanes
    /\ \E id \in ControlledLanes : traffic_lights[id] = "Green"
    /\ \E id \in ControlledLanes : traffic_lights[id] = "Red"

(***************************************************************************)
(* The System Monitor's output.                                            *)
(***************************************************************************)
\* The line the monitor is to write for a payload that is not a LogEvent.
ErrorLine == [stream |-> "stderr"]

\* C25: the System Monitor writes exactly one line for every payload it
\* takes, in the order received: the log line of a well-formed LogEvent,
\* and an error line in its place for a payload that is not a LogEvent.
C25_MonitorOutput ==
    printed = [i \in DOMAIN consumed |->
                 IF IsLogEvent(consumed[i]) THEN LogLine(consumed[i])
                 ELSE ErrorLine]

(***************************************************************************)
(* The log events of the Simulation Engine.                                *)
(***************************************************************************)
\* The positions in logs' of the events whose source is vehicle c.
LogsOf(c) == { i \in DOMAIN logs' : logs'[i].source = <<"Car", c>> }

\* C28: every vehicle publishes exactly two log events.  The step that leaves
\* the spawn position publishes one, before any lane is entered, carrying the
\* ids of the planned route; the step that ends the task publishes one, after
\* every route lane has been entered and left; no other step publishes a log
\* of the vehicle, and neither position is passed twice (so N vehicles give
\* at least 2N log events).  "Simulation complete" is published from a state
\* where every vehicle task has ended, and no vehicle log follows it.
C28_VehicleLogs ==
    [][ /\ \A c \in Cars :
              /\ (cpc'[c] = "spawn" => cpc[c] = "spawn")
              /\ (cpc[c] = "done" => cpc'[c] = "done")
              /\ IF cpc[c] = "spawn" /\ cpc'[c] # "spawn"
                 THEN /\ Len(logs') = 1
                      /\ LogsOf(c) = {1}
                      /\ cpc'[c] = "entry"
                      /\ events[c] = << >>
                      /\ engine = "RabbitMQ" =>
                            logs'[1].message =
                               <<"Generated vehicle", input_lane[c],
                                 exit_lane[c], lane_route[c]>>
                 ELSE IF cpc[c] # "done" /\ cpc'[c] = "done"
                 THEN /\ Len(logs') = 1
                      /\ LogsOf(c) = {1}
                      /\ logs'[1].message = <<"Completed journey">>
                      /\ events[c] = ExpectedEvents(Travelled(c))
                 ELSE LogsOf(c) = {}
        /\ (sim_complete' /\ ~sim_complete
              => /\ \A c \in Cars : cpc[c] = "done"
                 /\ logs' = << LogEvent(<<"Simulation">>,
                                        <<"Simulation complete">>) >>)
        /\ (sim_complete
              => /\ sim_complete'
                 /\ \A c \in Cars : LogsOf(c) = {})
      ]_vars

\* main has published "Simulation complete" after a vehicle that drove two
\* route lanes and another one have both ended.
C28_Witness ==
    /\ sim_complete
    /\ Cardinality(Cars) >= 2
    /\ \E c \in Cars : Len(events[c]) = 4

(***************************************************************************)
(* Mutexes and suspension points.                                          *)
(***************************************************************************)
\* C30: no task is suspended in a timed sleep or in a bus publish while it
\* holds the LightMap mutex or the occupancy mutex.  The vehicle tasks and
\* the cycle tasks take and drop their mutex within one step; the holder
\* left is the recommendation loop, which must not be at its publish.
C30_NoLockWhileSuspended ==
    lock = "rec" => rec_pc # "publish_log"

(***************************************************************************)
(* Progress of the vehicles (checked under SpecLiveFair).                  *)
(***************************************************************************)
\* C29: under the fair scheduling of the vehicle tasks, the cycle tasks, the
\* bus and the light status listener, every wait of a vehicle for Green on
\* a route lane ends with the drive of the lane, every spawned vehicle
\* finishes, and the engine publishes "Simulation complete".
C29_VehiclesFinish ==
    /\ \A c \in 1..LiveCars : (cpc[c] = "wait") ~> (cpc[c] = "drive")
    /\ <>(sim_complete /\ \A c \in Cars : cpc[c] = "done")

\* A vehicle waits in its route lane while the engine's map holds Red for
\* the lane and the lane's junction is in its clearance hold.
C29_Witness ==
    \E c \in Cars :
        /\ cpc[c] = "wait"
        /\ lane_route[c][ri[c]] \in DOMAIN light_status_map
        /\ light_status_map[lane_route[c][ri[c]]] = "Red"
        /\ jpc[JunctionOf(lane_route[c][ri[c]])] = "clearance_hold"

(***************************************************************************)
(* Writers of the LightMap.                                                *)
(***************************************************************************)
\* C31: the LightMap entry of a lane entering junction j is written only by
\* the cycle task of j: a step that changes the colour of the lane is a step
\* of that cycle task, and never one of the recommendation loop or of the
\* cycle task of another junction.
C31_OnlyOwnTaskWrites ==
    [][ \A id \in ControlledLanes :
          traffic_lights'[id] # traffic_lights[id]
             => /\ jpc'[JunctionOf(id)] # jpc[JunctionOf(id)]
                /\ rec_pc' = rec_pc
                /\ \A j \in Junctions \ {JunctionOf(id)} : jpc'[j] = jpc[j]
      ]_vars

(***************************************************************************)
(* Recommendations and the phase timer (checked under SpecCycleFair).      *)
(***************************************************************************)
\* Some task of the controller, or the delivery of what it published, can
\* take a step.
ControllerCanStep ==
    ENABLED (JunctionStep \/ RecommendationStep \/ listen_for_light_statuses)

\* C32: recommendation handling neither deadlocks nor starves the phase
\* timer: in every reachable state some task of the controller can step,
\* and, whatever the rate at which Recommendations arrive, every cycle task
\* makes its all-red write again and again, so it makes every phase
\* transition of its loop (under fair scheduling and a publish that returns).
C32_TimerNotStarved ==
    /\ ControllerCanStep
    /\ [][ControllerCanStep']_vars
    /\ \A j \in CycleJunctions : []<>(jpc[j] = "publish_red" /\ jk[j] = 1)

\* The green hold of a junction is over while the recommendation loop holds
\* the map's lock at its publish and another Recommendation waits.
C32_Witness ==
    \E j \in Junctions :
        /\ jpc[j] = "green_hold"
        /\ lock = "rec"
        /\ rec_pc = "publish_log"
        /\ recommendations # << >>

(***************************************************************************)
(* The lifetime of a recommendation's Green (checked under SpecCycle).     *)
(***************************************************************************)
\* C33: the Green a Recommendation sets is one-shot and lasts at most until
\* the next phase write of the lane's junction: the green write leaves
\* exactly the lanes of the current group Green and the all-red write leaves
\* none, whatever Recommendations were applied before, so two Green groups
\* at a junction end there; a lane goes from Red to Green only by its
\* junction's green write or by the step that takes a Recommendation for it,
\* and that step consumes the Recommendation.
C33_OverrideOneShot ==
    [][ /\ \A j \in Junctions :
              /\ (jpc[j] = "write_green" /\ jpc'[j] # jpc[j])
                    => GreenLanesAt(j)' = CurrentGroup(j)
              /\ (jpc[j] = "green_hold" /\ jpc'[j] # jpc[j])
                    => GreenLanesAt(j)' = {}
              /\ \A id \in LaneIdsAt(j) :
                    (traffic_lights[id] = "Red" /\ traffic_lights'[id] = "Green")
                       => \/ jpc[j] = "write_green" /\ jpc'[j] # jpc[j]
                          \/ RecommendationTaken /\ rec'.lane_id = id
        /\ RecommendationTaken
              => /\ rec' = Head(recommendations)
                 /\ recommendations' = Tail(recommendations)
      ]_vars

\* The green hold of a junction is over, its all-red write is next, and
\* lanes of two groups are Green: one by the cycle, one by a Recommendation.
C33_Witness ==
    \E j \in Junctions :
        /\ jpc[j] = "green_hold"
        /\ lock = "none"
        /\ CurrentGroup(j) \subseteq GreenLanesAt(j)
        /\ GreenLanesAt(j) \ CurrentGroup(j) # {}

(***************************************************************************)
(* Groups and approach sides (checked under SpecApproach).                 *)
(***************************************************************************)
\* The side from which a lane enters its junction: the neighbouring junction
\* it starts at, or, for an input lane, the outside of the grid along its
\* direction of travel.
ApproachSide(lane) ==
    IF lane.start_intersection = 0
    THEN <<"outside", InputDirection[lane.id]>>
    ELSE <<"junction", lane.start_intersection>>

\* C34: two lanes that enter a junction from different sides (an input lane
\* and an internal lane from a neighbouring junction, two internal lanes
\* from different neighbours, the two input lanes of junction 16) are never
\* placed in the same group.
C34_NoConflictingGroup ==
    \A c \in Range(group_out) : \A g \in DOMAIN c.result :
        \A a, b \in Range(c.result[g]) :
            ApproachSide(LaneById(a)) = ApproachSide(LaneById(b))

(***************************************************************************)
(* Acknowledgements (checked under SpecAck).                               *)
(***************************************************************************)
\* The monitor takes the delivery at the head of its queue.
TakesLog == mon_pc = "idle" /\ mon_pc' # "idle"

\* Nothing can step only when every queue is drained and every loop is back
\* at its start, with the last delivery acknowledged.
Drained ==
    ENABLED NextAck
       \/ /\ traffic_updates = << >> /\ fa_pc = "idle"
          /\ recommendations = << >> /\ rec_pc = "idle"
          /\ log_queue = << >> /\ mon_pc = "idle"
          /\ light_status = << >>

InitCount ==
    /\ lanes = TableSim
    /\ InitTL
    /\ age = << >>
    /\ light_status_map = << >>
    /\ engine = "RabbitMQ"
    /\ InitSim(NumCars)
    /\ InitFA
    /\ InitMon

NextCount ==
    \/ \E c \in Cars : CarSpawn(c)
    \/ \E c \in Cars : CarEntryDone(c)
    \/ \E c \in Cars : CarEnterLane(c)
    \/ \E c \in Cars : CarSeeGreen(c)
    \/ \E c \in Cars : CarLeaveLane(c)
    \/ \E c \in Cars : CarComplete(c)
    \/ SimulationComplete
    \/ listen_for_light_statuses
    \/ BusLightStatus

SpecCount == InitCount /\ [][NextCount]_vars

\* Vehicle c has entered lane id and not yet left it.
Inside(c, id) ==
    \E i \in DOMAIN events[c] :
        /\ events[c][i] = Event("enter", id)
        /\ \A k \in DOMAIN events[c] :
              k > i => events[c][k] # Event("leave", id)

\* The number of vehicles among the first n that are inside lane id.
RECURSIVE InsideCount(_, _)
InsideCount(n, id) ==
    IF n = 0 THEN 0
    ELSE (IF Inside(n, id) THEN 1 ELSE 0) + InsideCount(n - 1, id)

\* The sum of the occupancies of the first n lanes of the table.
RECURSIVE TotalCount(_)
TotalCount(n) ==
    IF n = 0 THEN 0 ELSE Count(lanes[n].id) + TotalCount(n - 1)

\* The number of vehicles among the first n whose task has not ended.
RECURSIVE RunningCount(_)
RunningCount(n) ==
    IF n = 0 THEN 0
    ELSE (IF cpc[n] # "done" THEN 1 ELSE 0) + RunningCount(n - 1)

\* C36: under every interleaving of the vehicle tasks the occupancy of a
\* lane is the number of vehicles that have entered the lane and not yet
\* left it (no update is lost or applied twice), and the occupancies of all
\* lanes together never exceed the number of vehicles still running.
C36_ExactCounting ==
    /\ \A i \in DOMAIN lanes :
          Count(lanes[i].id) = InsideCount(Len(cpc), lanes[i].id)
    /\ TotalCount(Len(lanes)) <= RunningCount(Len(cpc))

\* Two vehicles are inside the same lane, and its occupancy is 2.
C36_Witness ==
    \E id \in LaneIds : \E c, d \in Cars :
        /\ c # d
        /\ Inside(c, id)
        /\ Inside(d, id)
        /\ Count(id) = 2

(***************************************************************************)
(* The controller in its two surroundings: with recommendations waiting    *)
(* in the queue of its subscriber loop and no vehicle on the grid, or      *)
(* next to the running simulation, whose vehicle tasks fill the occupancy  *)
(* map, with no recommendation published (the RabbitMQ engine publishes no *)
(* traffic update, so the Flow Analyzer has nothing to recommend).         *)
(***************************************************************************)
InitIndependent ==
    /\ \/ /\ lanes = TableTL
          /\ recommendations \in
               Waiting({ Recommendation(l.id, NewGreenTime) :
                           l \in Range(TableTL) })
          /\ engine = "RabbitMQ"
          /\ InitSim(0)
       \/ /\ lanes = TableLoop
          /\ recommendations = << >>
          /\ engine = "RabbitMQ"
          /\ InitSim(LiveCars)
    /\ traffic_lights = initialize_traffic_lights
    /\ jpc = [j \in Junctions |-> "write_green"]
    /\ jk = [j \in Junctions |-> 0]
    /\ groups = [j \in Junctions |-> group_lanes_by_direction(lane_list(j))]
    /\ group_index = [j \in Junctions |-> 0]
    /\ status = [j \in Junctions |-> "Red"]
    /\ sleep_for = [j \in Junctions |-> 0]
    /\ lock = "none"
    /\ rec_pc = "idle"
    /\ rec = NoRec
    /\ light_status = << >>
    /\ logs = << >>
    /\ age = << >>
    /\ light_status_map = << >>
    /\ InitFA
    /\ InitMon

NextIndependent ==
    \/ \E c \in Cars : CarSpawn(c)
    \/ \E c \in Cars : CarEntryDone(c)
    \/ \E c \in Cars : CarEnterLane(c)
    \/ \E c \in Cars : CarSeeGreen(c)
    \/ \E c \in Cars : CarLeaveLane(c)
    \/ \E c \in Cars : CarComplete(c)
    \/ SimulationComplete
    \/ listen_for_light_statuses
    \/ JunctionStep
    \/ RecommendationStep

SpecIndependent == InitIndependent /\ [][NextIndependent]_vars

\* A step in which the cycle task of junction j writes a phase: the green
\* write or the all-red write.
PhaseWrite(j) ==
    \/ jpc[j] = "write_green" /\ jpc'[j] # "write_green"
    \/ jpc[j] = "green_hold" /\ jpc'[j] # "green_hold"

\* C37: a phase write of junction j's cycle task changes the colour of no
\* lane entering another junction, no other junction's group_index and no
\* occupancy; the step that takes a Recommendation for lane L changes the
\* colour of no lane other than L.
C37_JunctionsIndependent ==
    [][ /\ \A j \in Junctions :
              PhaseWrite(j)
              => /\ DOMAIN traffic_lights' = DOMAIN traffic_lights
                 /\ \A id \in DOMAIN traffic_lights :
                       JunctionOf(id) # j
                       => traffic_lights'[id] = traffic_lights[id]
                 /\ \A k \in Junctions \ {j} :
                       group_index'[k] = group_index[k]
                 /\ occupancy' = occupancy
        /\ RecommendationTaken
              => /\ DOMAIN traffic_lights' = DOMAIN traffic_lights
                 /\ \A id \in DOMAIN traffic_lights :
                       id # Head(recommendations).lane_id
                       => traffic_lights'[id] = traffic_lights[id]
      ]_vars

\* Junction j has just written all its lanes Red while a lane entering
\* another junction is Green and a vehicle is counted on some lane.
C37_Witness ==
    \E j \in Junctions :
        /\ jpc[j] = "publish_red"
        /\ jk[j] = 1
        /\ \E id \in ControlledLanes :
              JunctionOf(id) # j /\ traffic_lights[id] = "Green"
        /\ \E i \in DOMAIN lanes : Count(lanes[i].id) > 0

\* A recommendation has just made a lane Green while a lane entering another
\* junction is Green by that junction's cycle.
C37_WitnessRecommendation ==
    /\ rec_pc = "publish_log"
    /\ rec.lane_id \in ControlledLanes
    /\ \E id \in ControlledLanes :
          /\ JunctionOf(id) # JunctionOf(rec.lane_id)
          /\ traffic_lights[id] = "Green"

(***************************************************************************)
(* The cycle task of a junction of the shipped input lanes, on the drawn   *)
(* approach tables, with the listener that drains its light statuses.      *)
(***************************************************************************)
NextApproachCycle ==
    \/ JunctionStep
    \/ listen_for_light_statuses

SpecApproachCycle == InitApproach /\ [][NextApproachCycle]_vars

\* C38: at every junction that has an incoming lane the groups of the cycle
\* task are a partition of the junction's incoming lanes (at least one
\* group, no group empty, every lane id in exactly one group and once in
\* it), group_index is one of 0..group_count-1, and every controlled lane is
\* a member of one of the groups the index runs over.
C38_GroupsPartition ==
    /\ \A j \in Junctions :
          /\ lane_list(j) # << >>
          /\ Len(groups[j]) >= 1
          /\ group_index[j] \in 0..(Len(groups[j]) - 1)
          /\ \A i \in DOMAIN groups[j] :
                /\ groups[j][i] # << >>
                /\ Range(groups[j][i]) \subseteq LaneIdsAt(j)
                /\ \A a, b \in DOMAIN groups[j][i] :
                      a # b => groups[j][i][a] # groups[j][i][b]
          /\ \A id \in LaneIdsAt(j) :
                \E i \in DOMAIN groups[j] :
                   /\ id \in Range(groups[j][i])
                   /\ \A k \in DOMAIN groups[j] \ {i} :
                         id \notin Range(groups[j][k])
    /\ \A id \in ControlledLanes :
          \E g \in 0..(Len(groups[JunctionOf(id)]) - 1) :
             id \in Range(groups[JunctionOf(id)][g + 1])

\* A junction of several groups, one of them of several lanes, holds the
\* green of its last group.
C38_Witness ==
    \E j \in Junctions :
        /\ Len(groups[j]) >= 2
        /\ \E i \in DOMAIN groups[j] : Len(groups[j][i]) >= 2
        /\ group_index[j] = Len(groups[j]) - 1
        /\ jpc[j] = "green_hold"

=============================================================================
